---- MODULE Spec2Model ----
(***************************************************************************)
(* Verification model of the TwitCanva image editor core:                  *)
(*   - the undo/redo history hook (src/src/hooks/useHistory.ts),           *)
(*   - the interaction-mode flags of the image editor,                     *)
(*   - the compositor generateCompositeImage of ImageEditorModal.tsx.      *)
(* Each part has its own specification over the shared variable list; a    *)
(* specification leaves the variables of the other parts at their initial  *)
(* values.                                                                 *)
(***************************************************************************)
EXTENDS Integers, Sequences, FiniteSets, TLC

VARIABLES
    \* ---- useHistory.ts: React state of the hook and its parameter
    past,            \* useState<T[]>([])           useHistory.ts:15
    present,         \* useState<T>(initialState)   useHistory.ts:16
    future,          \* useState<T[]>([])           useHistory.ts:17
    maxHistorySize,  \* hook parameter              useHistory.ts:10
    \* ---- observation of the calls made on the hook (history variables)
    lastCall,        \* the most recent call: [name, arg]
    before,          \* <<past, present, future>> as a record, before lastCall
    prevCall,        \* the call before lastCall
    before2,         \* the record before prevCall
    pushLog,         \* the current run of consecutive pushHistory calls
    undoCount,       \* number of undo calls made right after that run
    \* ---- ImageEditorModal.tsx: the open editor session
    isOpen,          \* prop isOpen                          ImageEditorModal.tsx:36
    modes,           \* the five mode flags owned by the mode hooks   :97-121, :260
    modeEvent,       \* the mode switch made by the latest event (history variable)
    elements,        \* useState<EditorElement[]>            ImageEditorModal.tsx:63
    nextId,          \* ids handed out so far by the element id generator
    localImageUrl,   \* useState<string | undefined>         ImageEditorModal.tsx:66
    brushBitmap,     \* content of the brush canvas (canvasRef), as a version number
    job,             \* the observed generateCompositeImage call
    editingTextId,   \* text.editingTextId of the text hook, 0 for null   :114-121
    \* ---- the compositor observed over two calls
    displayWidth,    \* imageRef.current.clientWidth, the displayed size  :127-128
    prevShot,        \* the finished generateCompositeImage call before job
    \* ---- assetService uploadAsset (part_003:113-148) and the asset store
    upl,             \* the observed uploadAsset call
    prevUpl,         \* the finished uploadAsset call before upl
    stored,          \* number of assets the store has saved
    \* ---- ImageEditorModal.tsx: persistence to the owning node
    node,            \* the node's persisted fields, as merged by onUpdate
    cs,              \* the saveCanvasToNode call in flight          :179-230
    es,              \* the saveUpdate call in flight                :342-369
    cr,              \* the handleCropApply calls in flight         :234-258
    lastSavedElements, \* lastSavedElementsRef.current                    :333
    event,           \* what the latest step generated or wrote (history variable)
    lastResponse,    \* the call whose upload settled latest (history variable)
    \* ---- ImageEditorModal.tsx: props, settings and the seeding effect
    props,           \* the props the parent renders the modal with      :35-49
    settings,        \* useState prompt, selectedModel, selectedAspectRatio,
                     \* selectedResolution                               :51-57
    hasInitializedRef,     \* useRef(false)                               :273
    initializedNodeIdRef,  \* useRef<string | null>(null), 0 for null     :272
    seedEvent,       \* what the latest render did (history variable)
    parentCalls,     \* the calls of onUpdate and onGenerate made by the latest
                     \* step of the settings handlers (history variable)
    \* ---- part_003: useGenerationRecovery
    gnodes,          \* the nodes of the canvas, by id                     :13
    backend,         \* what the generation backend holds for each node
    clock,           \* the time in milliseconds
    pollIds,         \* nodeIds of the running interval                   :81
    fetches,         \* number of status requests in flight, by node      :27
    extracts,        \* checkStatus calls waiting for the last frame      :57
    recEvent,        \* how the latest checkStatus call ended (history variable)
    \* ---- useChatAgent.ts: the state of the chat hook
    messages,        \* useState<ChatMessage[]>([])              useChatAgent.ts:67
    topic,           \* useState<string | null>(null), "" for null           :68
    sessionId,       \* useState<string | null>(null), 0 for null            :69
    isLoading,       \* useState(false)                                      :70
    error,           \* useState<string | null>(null)                        :71
    inflight,        \* the sendMessage call that waits for its response :112
    nextReq,         \* number of the next sendMessage call
    nextSession,     \* number of the next generated session id         :50-52
    chatEvent,       \* what the latest chat step did (history variable)
    \* ---- server/agent/index.js: the sessions of the chat agent
    sessions,        \* const sessions = new Map(), by session id   index.js:27
    agentCalls,      \* the sendMessage calls, by number of the call     :84
    nextCall,        \* number of the next sendMessage call
    \* ---- NodeControls.tsx: the frames of a video node
    frameInputs,     \* data.frameInputs, <<>> for undefined   NodeControls.tsx:14
    videoMode,       \* data.videoMode                                        :228
    connectedImageNodes, \* prop: ids of the connected image nodes with a url :18
    draggedIndex,    \* useState<number | null>(null), -1 for null           :44
    frameEvent,      \* the latest drop on a frame (history variable)
    \* ---- useHistory.ts: the callbacks of one render
    captured,        \* past, present, future as captured by the callbacks of
                     \* the latest render                    useHistory.ts:34-77
    batch            \* the calls made since that render (history variable)

histVars == <<past, present, future, maxHistorySize,
              lastCall, before, prevCall, before2, pushLog, undoCount>>

editorVars == <<isOpen, modes, modeEvent, elements, nextId, localImageUrl,
                brushBitmap, job, editingTextId>>

detVars == <<displayWidth, prevShot>>

\* the variables outside the history hook and the editor session
uploadVars == <<upl, prevUpl, stored>>

saveVars == <<node, cs, es, cr, lastSavedElements, event, lastResponse>>

seedVars == <<props, settings, hasInitializedRef, initializedNodeIdRef,
              seedEvent, parentCalls>>

recVars == <<gnodes, backend, clock, pollIds, fetches, extracts, recEvent>>

\* the variables outside the image editor
chatVars == <<messages, topic, sessionId, isLoading, error, inflight, nextReq,
              nextSession, chatEvent>>

agentVars == <<sessions, agentCalls, nextCall>>

\* the variables of the parts modelled last
frameVars == <<frameInputs, videoMode, connectedImageNodes, draggedIndex,
               frameEvent>>

closureVars == <<captured, batch>>

lateVars == <<agentVars, frameVars, closureVars>>

restVars == <<recVars, chatVars, lateVars>>

extVars == <<detVars, uploadVars, saveVars, seedVars, restVars>>

vars == <<histVars, editorVars, extVars>>

(***************************************************************************)
(* Bounds of the model.                                                    *)
(***************************************************************************)
\* largest maxHistorySize argument the hook is instantiated with
MaxHistoryArg == 2
\* number of pushHistory calls remembered in pushLog (a sliding window)
MaxRun == 3
\* length at which pushHistory is no longer called (only reached when the
\* past stack is not bounded by maxHistorySize)
PastCap == MaxHistoryArg + 2

(***************************************************************************)
(* Snapshots: the JSON values stored in the history.  A snapshot is an     *)
(* array of element ids.                                                   *)
(***************************************************************************)
Snapshots == { <<>>, <<1>>, <<2>>, <<1, 2>> }

NoArg == <<0>>

Min(a, b) == IF a < b THEN a ELSE b
Max(a, b) == IF a > b THEN a ELSE b

\* decimal rendering of the numbers that occur in snapshots
NumberToString(n) == <<"0", "1", "2", "3", "4", "5", "6", "7", "8", "9">>[n + 1]

RECURSIVE JoinItems(_)
JoinItems(arr) ==
    IF Len(arr) = 0 THEN <<>>
    ELSE IF Len(arr) = 1 THEN <<NumberToString(arr[1])>>
    ELSE <<NumberToString(arr[1]), ",">> \o JoinItems(Tail(arr))

\* JSON.stringify of an array of numbers, as a sequence of characters
JSONStringify(value) == <<"[">> \o JoinItems(value) \o <<"]">>

\* Array.prototype.slice(start): a negative start counts from the end,
\* and -0 is 0
slice(arr, start) ==
    LET from == IF start < 0 THEN Max(Len(arr) + start, 0)
                ELSE Min(start, Len(arr))
    IN  SubSeq(arr, from + 1, Len(arr))

(***************************************************************************)
(* The hook's operations as functions of the captured state                *)
(* h = [past, present, future].                                            *)
(***************************************************************************)
H == [past |-> past, present |-> present, future |-> future]

canUndo(h) == Len(h.past) > 0
canRedo(h) == Len(h.future) > 0

\* a plausible slip: restores the oldest entry instead of the newest
UndoOldestFirst(h) ==
    IF ~canUndo(h) THEN h
    ELSE [past    |-> Tail(h.past),
          present |-> h.past[1],
          future  |-> <<h.present>> \o h.future]

\* a plausible slip: the canUndo guard is missing
UndoUnguarded(h) ==
    [past    |-> IF Len(h.past) > 0 THEN SubSeq(h.past, 1, Len(h.past) - 1) ELSE <<>>,
     present |-> IF Len(h.past) > 0 THEN h.past[Len(h.past)] ELSE h.present,
     future  |-> <<h.present>> \o h.future]

\* a plausible slip: the restored entry is not removed from past
UndoKeepsPast(h) ==
    IF ~canUndo(h) THEN h
    ELSE [past    |-> h.past,
          present |-> h.past[Len(h.past)],
          future  |-> <<h.present>> \o h.future]

Undo(h) ==
    IF ~canUndo(h) THEN h
    ELSE LET previous == h.past[Len(h.past)]
             newPast  == SubSeq(h.past, 1, Len(h.past) - 1)
         IN  [past    |-> newPast,
              present |-> previous,
              future  |-> <<h.present>> \o h.future]

\* a plausible slip: the redone present is put in front of past
RedoPrepends(h) ==
    IF ~canRedo(h) THEN h
    ELSE [past    |-> <<h.present>> \o h.past,
          present |-> h.future[1],
          future  |-> Tail(h.future)]

Redo(h) ==
    IF ~canRedo(h) THEN h
    ELSE LET next      == h.future[1]
             newFuture == slice(h.future, 1)
         IN  [past    |-> h.past \o <<h.present>>,
              present |-> next,
              future  |-> newFuture]

\* a plausible slip: the deep comparison is missing
PushHistoryNoCompare(h, newState, maxSize) ==
    [past    |-> slice(h.past, -maxSize + 1) \o <<h.present>>,
     present |-> newState,
     future  |-> <<>>]

\* a plausible slip: the redo stack is kept
PushHistoryKeepsFuture(h, newState, maxSize) ==
    IF JSONStringify(newState) = JSONStringify(h.present) THEN h
    ELSE [past    |-> slice(h.past, -maxSize + 1) \o <<h.present>>,
          present |-> newState,
          future  |-> h.future]

\* a plausible slip: the new state, not the current one, is added to past
PushHistoryRecordsNew(h, newState, maxSize) ==
    IF JSONStringify(newState) = JSONStringify(h.present) THEN h
    ELSE [past    |-> slice(h.past, -maxSize + 1) \o <<newState>>,
          present |-> newState,
          future  |-> <<>>]

PushHistory(h, newState, maxSize) ==
    IF JSONStringify(newState) = JSONStringify(h.present) THEN h
    ELSE LET newPast == slice(h.past, -maxSize + 1) \o <<h.present>>
         IN  [past    |-> newPast,
              present |-> newState,
              future  |-> <<>>]

Reset(newState) ==
    [past |-> <<>>, present |-> newState, future |-> <<>>]

(***************************************************************************)
(* The image editor (ImageEditorModal.tsx).                                *)
(***************************************************************************)
Modes == {"select", "draw", "arrow", "text", "crop"}

\* largest element id the id generator hands out
MaxElements == 2
\* number of brush strokes painted in one behaviour
MaxStrokes == 1
\* number of crops applied in one behaviour
MaxCrops == 2
\* longest text typed into a text element
MaxText == 1

\* image references: NoImage is undefined; the others are the node's image,
\* a cropped image (data URL) and the stored copy of a cropped image
NoImage == 0
NodeImage == 1
CroppedDataUrl == 2
StoredCropUrl == 3

\* editingTextId when no text element is being edited (null)
NoEditing == 0

NoModeEvent == [enabled |-> "none", wasActive |-> {}]
NoJob == [pc |-> "idle", bg |-> NoImage, elements |-> <<>>, width |-> 0,
          painted |-> <<>>]

\* number of displayed sizes the image takes
MaxWidth == 2

InitDet ==
    /\ displayWidth = 1
    /\ prevShot = NoJob

\* no uploadAsset call in progress
NoUpload == [pc |-> "idle", dataUrl |-> <<>>, requests |-> 0, result |-> <<>>]

\* number of assets the store accepts in one behaviour
MaxAssets == 2

InitUpload ==
    /\ upl = NoUpload
    /\ prevUpl = NoUpload
    /\ stored = 0

\* '' and undefined: no URL
NoUrl == <<>>

\* the fields onUpdate is called with by the editor's saves
EditorFields == {"resultUrl", "editorCanvasData", "editorElements",
                 "editorBackgroundUrl", "editorCanvasSize"}

NoUpdates == [f \in {} |-> NoUrl]

NoCanvasSave == [pc |-> "idle", bg |-> NoImage, elements |-> <<>>,
                 canvasData |-> 0, composite |-> NoUrl, ok |-> {},
                 rejected |-> FALSE]
NoElementSave == [pc |-> "idle", bg |-> NoImage, elements |-> <<>>,
                  composite |-> NoUrl]
\* pc and url: the latest handleCropApply call; earlier: the cropped image of
\* the call before it while that call awaits its upload; last: the cropped
\* image of the latest call made (history)
NoCrop == [pc |-> "idle", url |-> NoImage, earlier |-> NoImage,
           last |-> NoImage]
NoEvent == [type |-> "none", by |-> "none", painted |-> <<>>,
            updates |-> NoUpdates, ok |-> {}, rejected |-> FALSE,
            threw |-> FALSE, calls |-> 0, saves |-> 0]

\* a node whose editor has never saved
FreshNode == [f \in EditorFields |-> NoUrl]

InitSave ==
    /\ node = FreshNode
    /\ cs = NoCanvasSave
    /\ es = NoElementSave
    /\ cr = NoCrop
    /\ lastSavedElements = <<"">>
    /\ event = NoEvent
    /\ lastResponse = "none"

\* the settings kept in the session, and their defaults (lines 51-57)
SettingNames == {"prompt", "selectedModel", "selectedAspectRatio",
                 "selectedResolution"}
Default == [prompt |-> "", selectedModel |-> "gemini-pro",
            selectedAspectRatio |-> "Auto", selectedResolution |-> "1K"]

\* a prop that is not passed
Undefined == "undefined"

\* number of nodes the editor is opened for
MaxNodes == 2

\* the props of a node that has no persisted editor fields and no image
NoProps == [nodeId |-> 1, initial |-> [s \in SettingNames |-> Undefined],
            imageUrl |-> NoImage, initialBackgroundUrl |-> NoImage,
            initialElements |-> [defined |-> FALSE, list |-> <<>>]]

NoSeedEvent == [kind |-> "none", changed |-> FALSE, nodeBefore |-> 0,
                afterClose |-> FALSE]

InitSeed ==
    /\ props = NoProps
    /\ settings = Default
    /\ hasInitializedRef = FALSE
    /\ initializedNodeIdRef = 0
    /\ seedEvent = NoSeedEvent
    /\ parentCalls = <<>>

\* number of nodes the recovery hook watches
MaxPolled == 2

\* the last millisecond of the model
MaxTime == 2

\* at most MaxChecks status requests per node are followed at a time
MaxChecks == 1

NodeIds == 1..MaxPolled

\* an optional field that is not set (a timestamp, a URL, a frame)
Unset == 0

\* a node that has never generated; of the fields of a node the model keeps
\* the two the hook reads
IdleNode == [status |-> "IDLE", generationStartTime |-> Unset]

\* the backend knows nothing about the node
NoResult == [status |-> "none", resultUrl |-> Unset, createdAt |-> Unset,
             type |-> "image", running |-> FALSE]

NoRecEvent == [kind |-> "none", id |-> 0, data |-> NoResult,
               updates |-> <<>>, startTime |-> Unset]

InitRecovery ==
    /\ gnodes = [n \in NodeIds |-> IdleNode]
    /\ backend = [n \in NodeIds |-> NoResult]
    /\ clock = 1
    /\ pollIds = <<>>
    /\ fetches = [n \in NodeIds |-> 0]
    /\ extracts = [n \in NodeIds |-> <<>>]
    /\ recEvent = NoRecEvent

\* sendMessage is called at most MaxSends times
MaxSends == 3

\* the value null of error
NoError == "null"

NoRequest == [req |-> 0, sessionId |-> 0, content |-> ""]

NoResponse == [kind |-> "none", json |-> FALSE, error |-> "", statusText |-> "",
               message |-> "", response |-> "", topic |-> ""]

NoChatEvent == [kind |-> "none", req |-> 0, resp |-> NoResponse,
                rejected |-> FALSE]

InitChat ==
    /\ messages = <<>>
    /\ topic = ""
    /\ sessionId = 0
    /\ isLoading = FALSE
    /\ error = NoError
    /\ inflight = NoRequest
    /\ nextReq = 1
    /\ nextSession = 1
    /\ chatEvent = NoChatEvent

\* the session ids the clients send
MaxSessions == 2

\* sendMessage of the agent is called at most MaxCalls times
MaxCalls == 3

SessionIds == 1..MaxSessions

\* sessions.has(id) is false
NoSession == [has |-> FALSE, messages |-> <<>>, topic |-> ""]

\* a call that has not been made; topic is the topic the call returns and
\* first tells that no call on the session had returned before it
NoAgentCall == [pc |-> "idle", sessionId |-> 0, topic |-> "", first |-> FALSE,
                before |-> <<>>]

InitAgent ==
    /\ sessions = [id \in SessionIds |-> NoSession]
    /\ agentCalls = [c \in 1..MaxCalls |-> NoAgentCall]
    /\ nextCall = 1

\* the image nodes that may be connected to the video node
MaxFrames == 3

NoFrameEvent == [kind |-> "none", from |-> 0, to |-> 0, shown |-> <<>>,
                 before |-> <<>>]

InitFrames ==
    /\ frameInputs = <<>>
    /\ videoMode = "standard"
    /\ connectedImageNodes = <<>>
    /\ draggedIndex = -1
    /\ frameEvent = NoFrameEvent

\* number of calls made on the callbacks of one render
MaxBatch == 2

\* the hook has not rendered
NoCapture == [past |-> <<>>, present |-> <<0>>, future |-> <<>>]

InitClosure ==
    /\ captured = NoCapture
    /\ batch = <<>>

InitLate == InitAgent /\ InitFrames /\ InitClosure

InitRest == InitRecovery /\ InitChat /\ InitLate

InitExt == InitDet /\ InitUpload /\ InitSave /\ InitSeed /\ InitRest

\* the editor before it is opened for the first time
InitEditor ==
    /\ isOpen = FALSE
    /\ modes = [m \in Modes |-> FALSE]
    /\ modeEvent = NoModeEvent
    /\ elements = <<>>
    /\ nextId = 2
    /\ localImageUrl = NoImage
    /\ brushBitmap = 0
    /\ job = NoJob
    /\ editingTextId = NoEditing
    /\ InitExt

(***************************************************************************)
(* Calls on the hook.  Each call is followed by the re-render that makes   *)
(* the new state the captured one.                                         *)
(***************************************************************************)
Commit(h) ==
    /\ past' = h.past
    /\ present' = h.present
    /\ future' = h.future
    /\ UNCHANGED maxHistorySize
    /\ UNCHANGED <<editorVars, extVars>>

Observe(name, arg) ==
    /\ lastCall' = [name |-> name, arg |-> arg]
    /\ before' = H
    /\ prevCall' = lastCall
    /\ before2' = before

CallUndo ==
    /\ Commit(Undo(H))
    /\ Observe("undo", NoArg)
    /\ UNCHANGED <<pushLog, undoCount>>

CallRedo ==
    /\ Commit(Redo(H))
    /\ Observe("redo", NoArg)
    /\ UNCHANGED <<pushLog, undoCount>>

CallPushHistory ==
    \E newState \in Snapshots :
        /\ Len(past) < PastCap
        /\ Commit(PushHistory(H, newState, maxHistorySize))
        /\ Observe("pushHistory", newState)
        /\ UNCHANGED <<pushLog, undoCount>>

CallReset ==
    \E newState \in Snapshots :
        /\ Commit(Reset(newState))
        /\ Observe("reset", newState)
        /\ UNCHANGED <<pushLog, undoCount>>

NoCall == [name |-> "none", arg |-> NoArg]

InitHook ==
    /\ past = <<>>
    /\ present \in Snapshots
    /\ future = <<>>
    /\ maxHistorySize \in 1..MaxHistoryArg

InitObserved ==
    /\ lastCall = NoCall
    /\ prevCall = NoCall
    /\ before = [past |-> <<>>, present |-> <<>>, future |-> <<>>]
    /\ before2 = [past |-> <<>>, present |-> <<>>, future |-> <<>>]
    /\ pushLog = <<>>
    /\ undoCount = 0

InitHistory == InitHook /\ InitObserved /\ InitEditor

NextHistory ==
    \/ CallUndo
    \/ CallRedo
    \/ CallPushHistory
    \/ CallReset

SpecHistory == InitHistory /\ [][NextHistory]_vars

(***************************************************************************)
(* The same calls, observed as runs: pushLog holds the latest run of       *)
(* consecutive pushHistory calls (the present before each and the snapshot *)
(* passed), undoCount the undo calls made right after it.                  *)
(***************************************************************************)
RunUndo ==
    /\ Commit(Undo(H))
    /\ undoCount' = IF Len(pushLog) > 0 THEN Min(undoCount + 1, MaxRun + 1) ELSE 0
    /\ UNCHANGED <<pushLog, lastCall, before, prevCall, before2>>

RunRedo ==
    /\ Commit(Redo(H))
    /\ pushLog' = <<>>
    /\ undoCount' = 0
    /\ UNCHANGED <<lastCall, before, prevCall, before2>>

RunPushHistory ==
    \E newState \in Snapshots :
        /\ Len(past) < PastCap
        /\ Commit(PushHistory(H, newState, maxHistorySize))
        /\ LET entry == [pre |-> present, arg |-> newState]
               run   == IF undoCount > 0 THEN <<>> ELSE pushLog
           IN  pushLog' = slice(run \o <<entry>>, -MaxRun)
        /\ undoCount' = 0
        /\ UNCHANGED <<lastCall, before, prevCall, before2>>

RunReset ==
    \E newState \in Snapshots :
        /\ Commit(Reset(newState))
        /\ pushLog' = <<>>
        /\ undoCount' = 0
        /\ UNCHANGED <<lastCall, before, prevCall, before2>>

NextRoundTrip ==
    \/ RunUndo
    \/ RunRedo
    \/ RunPushHistory
    \/ RunReset

SpecRoundTrip == InitHistory /\ [][NextRoundTrip]_vars

(***************************************************************************)
(* Interaction modes.  The five flags live in the five mode hooks and are  *)
(* switched by the bottom toolbar, which receives every setter             *)
(* (ImageEditorModal.tsx:822-842).                                         *)
(***************************************************************************)
ActiveModes == {m \in Modes : modes[m]}

\* a plausible slip: the toolbar switches the chosen mode on and leaves
\* the others as they are
EnableOnly(m) == [modes EXCEPT ![m] = TRUE]

\* the flags after the toolbar button of mode m is pressed to enable it
Enable(m) == [o \in Modes |-> o = m]

EnableMode ==
    \E m \in Modes :
        /\ isOpen
        /\ ~modes[m]
        /\ modes' = Enable(m)
        /\ modeEvent' = [enabled |-> m, wasActive |-> ActiveModes]
        /\ UNCHANGED <<isOpen, elements, nextId, localImageUrl, brushBitmap, job>>
        /\ UNCHANGED editingTextId
        /\ UNCHANGED <<histVars, extVars>>

DisableMode ==
    \E m \in Modes :
        /\ isOpen
        /\ modes[m]
        /\ modes' = [modes EXCEPT ![m] = FALSE]
        /\ modeEvent' = NoModeEvent
        /\ UNCHANGED <<isOpen, elements, nextId, localImageUrl, brushBitmap, job>>
        /\ UNCHANGED editingTextId
        /\ UNCHANGED <<histVars, extVars>>

\* crop.cancelCrop: leaves crop mode, the background is not touched
cancelCrop ==
    /\ isOpen
    /\ modes["crop"]
    /\ localImageUrl # NoImage
    /\ modes' = [modes EXCEPT !["crop"] = FALSE]
    /\ modeEvent' = NoModeEvent
    /\ UNCHANGED <<isOpen, elements, nextId, localImageUrl, brushBitmap, job>>
    /\ UNCHANGED editingTextId
    /\ UNCHANGED <<histVars, extVars>>

\* crop.applyCrop: leaves crop mode and hands the cropped image to
\* handleCropApply, which shows it at once
applyCrop ==
    /\ isOpen
    /\ modes["crop"]
    /\ localImageUrl # NoImage
    /\ modes' = [modes EXCEPT !["crop"] = FALSE]
    /\ modeEvent' = NoModeEvent
    /\ localImageUrl' = CroppedDataUrl
    /\ UNCHANGED <<isOpen, elements, nextId, brushBitmap, job>>
    /\ UNCHANGED editingTextId
    /\ UNCHANGED <<histVars, extVars>>

\* handleCropApply after a successful upload: the stored reference
\* replaces the local background
cropUploaded ==
    /\ localImageUrl = CroppedDataUrl
    /\ localImageUrl' = StoredCropUrl
    /\ modeEvent' = NoModeEvent
    /\ UNCHANGED <<isOpen, modes, elements, nextId, brushBitmap, job>>
    /\ UNCHANGED editingTextId
    /\ UNCHANGED <<histVars, extVars>>

(***************************************************************************)
(* Session and element model.                                              *)
(***************************************************************************)
Arrow(id) == [id |-> id, type |-> "arrow"]
\* a text element; text is the number of characters typed into it
Text(id) == [id |-> id, type |-> "text", text |-> 0]

\* the element lists a node may have persisted
InitialElementLists == { <<>>, <<Arrow(1)>> }

\* the editor is opened for a node: the seeding effect
OpenEditor ==
    \E initialElements \in InitialElementLists,
       imageUrl \in {NoImage, NodeImage},
       initialCanvasData \in {0, 1} :
        /\ ~isOpen
        /\ isOpen' = TRUE
        /\ localImageUrl' = imageUrl
        /\ elements' = initialElements
        /\ brushBitmap' = IF imageUrl = NoImage THEN 0 ELSE initialCanvasData
        /\ modeEvent' = NoModeEvent
        /\ UNCHANGED <<modes, nextId, job>>
        /\ UNCHANGED editingTextId
        /\ UNCHANGED <<histVars, extVars>>

\* onClose: the session is torn down, all mode flags are reset
CloseEditor ==
    /\ isOpen
    /\ isOpen' = FALSE
    /\ modes' = [m \in Modes |-> FALSE]
    /\ modeEvent' = NoModeEvent
    /\ UNCHANGED <<elements, nextId, localImageUrl, brushBitmap, job>>
    /\ UNCHANGED editingTextId
    /\ UNCHANGED <<histVars, extVars>>

\* arrows.finishArrow on the arrow canvas: a new arrow is appended
finishArrow ==
    /\ isOpen
    /\ modes["arrow"]
    /\ localImageUrl # NoImage
    /\ nextId <= MaxElements
    /\ elements' = Append(elements, Arrow(nextId))
    /\ nextId' = nextId + 1
    /\ modeEvent' = NoModeEvent
    /\ UNCHANGED <<isOpen, modes, localImageUrl, brushBitmap, job>>
    /\ UNCHANGED editingTextId
    /\ UNCHANGED <<histVars, extVars>>

\* text.handleTextCanvasClick on the text canvas: a new text is appended
\* and its input is shown (a click made while another text is edited is
\* preceded by the blur of that input)
handleTextCanvasClick ==
    /\ isOpen
    /\ modes["text"]
    /\ localImageUrl # NoImage
    /\ nextId <= MaxElements
    /\ editingTextId = NoEditing
    /\ elements' = Append(elements, Text(nextId))
    /\ nextId' = nextId + 1
    /\ editingTextId' = nextId
    /\ modeEvent' = NoModeEvent
    /\ UNCHANGED <<isOpen, modes, localImageUrl, brushBitmap, job>>
    /\ UNCHANGED <<histVars, extVars>>

\* text.handleTextBlur: blur, Enter or Escape in the input of the text
\* being edited (ImageEditorModal.tsx:622-628)
handleTextBlur ==
    /\ editingTextId # NoEditing
    /\ editingTextId' = NoEditing
    /\ modeEvent' = NoModeEvent
    /\ UNCHANGED <<isOpen, modes, elements, nextId, localImageUrl,
                   brushBitmap, job>>
    /\ UNCHANGED <<histVars, extVars>>

\* a brush stroke ends on the brush canvas (drawing.stopDrawing)
stopDrawing ==
    /\ isOpen
    /\ modes["draw"]
    /\ localImageUrl # NoImage
    /\ brushBitmap < MaxStrokes
    /\ brushBitmap' = brushBitmap + 1
    /\ modeEvent' = NoModeEvent
    /\ UNCHANGED <<isOpen, modes, elements, nextId, localImageUrl, job>>
    /\ UNCHANGED editingTextId
    /\ UNCHANGED <<histVars, extVars>>

(***************************************************************************)
(* The compositor, generateCompositeImage.  A call captures elements and   *)
(* localImageUrl of its render, then waits for the background image to     *)
(* load or to fail; the brush canvas is read when the wait is over.  Each  *)
(* call paints on a canvas of its own, so one call is observed.            *)
(***************************************************************************)
Layer(kind, ref) == [layer |-> kind, ref |-> ref]

RECURSIVE ElementLayers(_)
ElementLayers(els) ==
    IF els = <<>> THEN <<>>
    ELSE <<Layer("element", els[1].id)>> \o ElementLayers(Tail(els))

\* a plausible slip: the load of the background is not awaited, so the
\* image is drawn when it arrives, over the layers already painted
PaintWithoutAwait(bg, loaded, hasBrush, brush, els) ==
    (IF hasBrush THEN <<Layer("brush", brush)>> ELSE <<>>)
    \o ElementLayers(els)
    \o (IF bg # NoImage /\ loaded THEN <<Layer("background", bg)>> ELSE <<>>)

\* the drawing calls made on the temporary canvas, in order
Paint(bg, loaded, hasBrush, brush, els) ==
    (IF bg # NoImage /\ loaded THEN <<Layer("background", bg)>> ELSE <<>>)
    \o (IF hasBrush THEN <<Layer("brush", brush)>> ELSE <<>>)
    \o ElementLayers(els)

\* imageRef.current and canvasRef.current are set while the image is shown
imageShown == isOpen /\ localImageUrl # NoImage

\* a save calls generateCompositeImage
generateCompositeImage ==
    /\ imageShown
    /\ job.pc = "idle"
    /\ job' = [pc |-> "loading", bg |-> localImageUrl, elements |-> elements,
               width |-> displayWidth, painted |-> <<>>]
    /\ modeEvent' = NoModeEvent
    /\ UNCHANGED <<isOpen, modes, elements, nextId, localImageUrl, brushBitmap>>
    /\ UNCHANGED editingTextId
    /\ UNCHANGED <<histVars, extVars>>

\* a plausible slip: the element list is read when the wait is over (from
\* the current render) instead of from the render that made the call
FinishLiveElements(loaded) ==
    /\ job.pc = "loading"
    /\ job' = [job EXCEPT !.pc = "done",
                          !.painted = Paint(job.bg, loaded, imageShown,
                                            brushBitmap, elements)]
    /\ modeEvent' = NoModeEvent
    /\ UNCHANGED <<isOpen, modes, elements, nextId, localImageUrl, brushBitmap>>
    /\ UNCHANGED editingTextId
    /\ UNCHANGED <<histVars, extVars>>

\* the wait is over: the layers are painted and the canvas is encoded
Finish(loaded) ==
    /\ job.pc = "loading"
    /\ job' = [job EXCEPT !.pc = "done",
                          !.painted = Paint(job.bg, loaded, imageShown,
                                            brushBitmap, job.elements)]
    /\ modeEvent' = NoModeEvent
    /\ UNCHANGED <<isOpen, modes, elements, nextId, localImageUrl, brushBitmap>>
    /\ UNCHANGED editingTextId
    /\ UNCHANGED <<histVars, extVars>>

\* img.onload of the waiting call
imageLoaded == Finish(TRUE)

\* img.onerror of the waiting call
imageError == Finish(FALSE)

\* the save that made the call takes its result
compositeReturned ==
    /\ job.pc = "done"
    /\ job' = NoJob
    /\ modeEvent' = NoModeEvent
    /\ UNCHANGED <<isOpen, modes, elements, nextId, localImageUrl, brushBitmap>>
    /\ UNCHANGED editingTextId
    /\ UNCHANGED <<histVars, extVars>>

InitHistoryIdle ==
    /\ past = <<>>
    /\ present = <<>>
    /\ future = <<>>
    /\ maxHistorySize = 1
    /\ InitObserved

InitEditorSession == InitEditor /\ InitHistoryIdle

NextEditor ==
    \/ OpenEditor
    \/ CloseEditor
    \/ EnableMode
    \/ DisableMode
    \/ cancelCrop
    \/ applyCrop
    \/ cropUploaded
    \/ finishArrow
    \/ handleTextCanvasClick
    \/ handleTextBlur
    \/ stopDrawing
    \/ generateCompositeImage
    \/ imageLoaded
    \/ imageError
    \/ compositeReturned

SpecEditor == InitEditorSession /\ [][NextEditor]_vars

(***************************************************************************)
(* The compositor over two calls.  The output of a call is the encoding    *)
(* of its temporary canvas: the size of the canvas, taken from the         *)
(* displayed image when the call starts, and the layers painted on it.     *)
(* The calls are made in a session with any element list, background and   *)
(* brush bitmap, in which arrows may be added and the image resized or     *)
(* closed while a call waits; prevShot keeps the finished call before the  *)
(* one in job.                                                             *)
(***************************************************************************)
\* canvas.toDataURL('image/png') of the temporary canvas of a finished call
Encode(call) == <<call.width, call.painted>>

\* the sessions in which the compositor is called
ElementLists == { <<>>, <<Arrow(1)>>, <<Text(1)>>, <<Arrow(1), Text(2)>> }

InitCompositor ==
    /\ isOpen = TRUE
    /\ modes \in {[m \in Modes |-> FALSE], Enable("arrow")}
    /\ modeEvent = NoModeEvent
    /\ elements \in ElementLists
    /\ nextId = Len(elements) + 1
    /\ localImageUrl \in {NodeImage, StoredCropUrl}
    /\ brushBitmap \in 0..MaxStrokes
    /\ job = NoJob
    /\ editingTextId = NoEditing
    /\ displayWidth \in 1..MaxWidth
    /\ prevShot = NoJob
    /\ InitUpload
    /\ InitSave
    /\ InitSeed
    /\ InitRest
    /\ InitHistoryIdle

\* the layout changes the displayed size of the image (window resize)
resizeDisplay ==
    \E w \in 1..MaxWidth :
        /\ isOpen
        /\ w # displayWidth
        /\ displayWidth' = w
        /\ modeEvent' = NoModeEvent
        /\ UNCHANGED <<isOpen, modes, elements, nextId, localImageUrl,
                       brushBitmap, job, editingTextId, prevShot>>
        /\ UNCHANGED <<histVars, uploadVars, saveVars, seedVars, restVars>>

\* the caller takes the result of the observed call, which is kept for
\* the comparison with the next call
compositeObserved ==
    /\ job.pc = "done"
    /\ prevShot' = job
    /\ job' = NoJob
    /\ modeEvent' = NoModeEvent
    /\ UNCHANGED <<isOpen, modes, elements, nextId, localImageUrl,
                   brushBitmap, editingTextId, displayWidth>>
    /\ UNCHANGED <<histVars, uploadVars, saveVars, seedVars, restVars>>

NextCompositor ==
    \/ CloseEditor
    \/ finishArrow
    \/ resizeDisplay
    \/ generateCompositeImage
    \/ imageLoaded
    \/ imageError
    \/ compositeObserved

SpecCompositor == InitCompositor /\ [][NextCompositor]_vars

(***************************************************************************)
(* uploadAsset (part_003:113-148).  A URL is a sequence of tokens; a data  *)
(* URL starts with the tokens "data" ":".  One call is observed, from the  *)
(* call to its return or throw; prevUpl keeps the call before it.          *)
(***************************************************************************)
DataPrefix == <<"data", ":">>

\* String.prototype.startsWith
startsWith(str, prefix) ==
    /\ Len(str) >= Len(prefix)
    /\ SubSeq(str, 1, Len(prefix)) = prefix

\* the file path the store answers for its n-th asset (/library/images/n.png)
StoreUrl(n) == <<"/library/", NumberToString(n)>>

\* the arguments uploadAsset is observed with
UploadInputs ==
    { DataPrefix \o <<"1">>, DataPrefix \o <<"2">>, <<"data">>,
      <<"x", "data", ":">>, <<"http://", "1">>, <<>> }

\* a plausible slip: the test for a server URL is missing, every argument
\* is posted to the store
UploadAssetAlwaysPosts(dataUrl) ==
    [pc |-> "fetching", dataUrl |-> dataUrl, requests |-> 1, result |-> <<>>]

\* uploadAsset up to its first await: a URL that is not a data URL is
\* returned as it is, a data URL is posted to the store
UploadAssetCall(dataUrl) ==
    IF ~startsWith(dataUrl, DataPrefix)
    THEN [pc |-> "returned", dataUrl |-> dataUrl, requests |-> 0,
          result |-> dataUrl]
    ELSE [pc |-> "fetching", dataUrl |-> dataUrl, requests |-> 1,
          result |-> <<>>]

UploadFrame ==
    UNCHANGED <<histVars, editorVars, detVars, saveVars, seedVars, restVars>>

\* a caller uploads a URL: a fresh one, or the result of the call before
uploadAsset ==
    \E dataUrl \in UploadInputs \cup {prevUpl.result} :
        /\ upl.pc = "idle"
        /\ upl' = UploadAssetCall(dataUrl)
        /\ UNCHANGED <<prevUpl, stored>>
        /\ UploadFrame

\* response.ok: the store saved the asset and answers its path
storeAccepts ==
    /\ upl.pc = "fetching"
    /\ stored < MaxAssets
    /\ stored' = stored + 1
    /\ upl' = [upl EXCEPT !.pc = "returned", !.result = StoreUrl(stored + 1)]
    /\ UNCHANGED prevUpl
    /\ UploadFrame

\* the request fails or the response is not ok: uploadAsset rethrows
storeRejects ==
    /\ upl.pc = "fetching"
    /\ upl' = [upl EXCEPT !.pc = "threw"]
    /\ UNCHANGED <<prevUpl, stored>>
    /\ UploadFrame

\* the caller takes the outcome of the call
uploadSettled ==
    /\ upl.pc \in {"returned", "threw"}
    /\ prevUpl' = upl
    /\ upl' = NoUpload
    /\ UNCHANGED stored
    /\ UploadFrame

NextUpload ==
    \/ uploadAsset
    \/ storeAccepts
    \/ storeRejects
    \/ uploadSettled

SpecUpload == InitEditorSession /\ [][NextUpload]_vars

(***************************************************************************)
(* Persistence of the session to the owning node.                          *)
(*                                                                         *)
(* URLs.  The background references are numbered: 1 is the node's image,   *)
(* an even number 2k is the data URL made by the k-th crop and 2k+1 the    *)
(* path the store answers for it.  What a URL shows is a picture, the      *)
(* sequence of layers painted on it.                                       *)
(***************************************************************************)
\* the picture behind a background reference (a crop and its stored copy
\* show the same picture)
PicId(u) == IF u % 2 = 0 \/ u = NodeImage THEN u ELSE u - 1

\* canvas.toDataURL of a canvas showing pic
DataUrl(pic) == DataPrefix \o <<pic>>

\* the path the store answers for an uploaded data URL
Stored(url) == <<"/library/", url[3]>>

\* the text of a background reference
UrlOf(u) ==
    IF u = NoImage THEN NoUrl
    ELSE IF u % 2 = 0 THEN DataUrl(<<Layer("background", PicId(u))>>)
    ELSE Stored(DataUrl(<<Layer("background", PicId(u))>>))

\* the reference of the stored copy of data URL u
StoredRef(u) == u + 1

\* the picture a URL shows
Pic(url) == IF startsWith(url, DataPrefix) THEN url[3] ELSE url[2]

\* a plausible slip: a field that has been written is not written again
MergeKeepsWritten(n, updates) ==
    [f \in DOMAIN n |->
        IF f \in DOMAIN updates /\ n[f] = NoUrl THEN updates[f] ELSE n[f]]

\* onUpdate(nodeId, updates): the node takes the fields of updates
Merge(n, updates) ==
    [f \in DOMAIN n |-> IF f \in DOMAIN updates THEN updates[f] ELSE n[f]]

\* a call ends with its onUpdate
Ended(by, updates, ok, rejected) ==
    [type |-> "end", by |-> by, painted |-> <<>>, updates |-> updates,
     ok |-> ok, rejected |-> rejected, threw |-> FALSE, calls |-> 1,
     saves |-> 0]

\* a call ends by throwing (no onUpdate)
Threw(by) ==
    [type |-> "end", by |-> by, painted |-> <<>>, updates |-> NoUpdates,
     ok |-> {}, rejected |-> TRUE, threw |-> TRUE, calls |-> 0, saves |-> 0]

\* a call has generated a composite
Generated(by, painted) ==
    [type |-> "composite", by |-> by, painted |-> painted,
     updates |-> NoUpdates, ok |-> {}, rejected |-> FALSE, threw |-> FALSE,
     calls |-> 0, saves |-> 0]

(***************************************************************************)
(* saveCanvasToNode (ImageEditorModal.tsx:179-230).  A call keeps the      *)
(* localImageUrl and the elements of the render that made it (through      *)
(* generateCompositeImage); s is the call: its position and its locals.    *)
(***************************************************************************)
\* savedCanvasDataUrl
BrushUrl(s) ==
    IF "brush" \in s.ok
    THEN Stored(DataUrl(<<Layer("brush", s.canvasData)>>))
    ELSE DataUrl(<<Layer("brush", s.canvasData)>>)

\* step 3: the background is uploaded if it is a data URL
BackgroundStep(s) ==
    IF s.bg # NoImage /\ startsWith(UrlOf(s.bg), DataPrefix)
    THEN [s EXCEPT !.pc = "uploadBackground"]
    ELSE [s EXCEPT !.pc = "finish"]

\* step 2: generateCompositeImage returns null when the image is not shown
CompositeStep(s, shown) ==
    IF shown THEN [s EXCEPT !.pc = "loadComposite"] ELSE BackgroundStep(s)

\* a plausible slip: the uploads are not wrapped in try/catch, a rejection
\* leaves the call
CatchRethrows(s, shown) == [s EXCEPT !.pc = "threw", !.rejected = TRUE]

\* the catch block: the composite is generated again if there is none
Catch(s, shown) ==
    IF s.composite = NoUrl /\ shown
    THEN [s EXCEPT !.pc = "loadFallback", !.rejected = TRUE]
    ELSE [s EXCEPT !.pc = "finish", !.rejected = TRUE]

\* the updates object of the call (lines 215-227)
CanvasUpdates(s, savedBackgroundUrl) ==
    ("editorCanvasData" :> BrushUrl(s))
    @@ ("editorCanvasSize" :> displayWidth)
    @@ (IF s.composite = NoUrl THEN NoUpdates
        ELSE ("resultUrl" :> s.composite)
             @@ (IF savedBackgroundUrl = NoUrl THEN NoUpdates
                 ELSE ("editorBackgroundUrl" :> savedBackgroundUrl)))

\* the call goes on as s; when it has finished it calls onUpdate
CanvasSaveGoes(s, savedBackgroundUrl) ==
    IF s.pc = "finish"
    THEN /\ node' = Merge(node, CanvasUpdates(s, savedBackgroundUrl))
         /\ cs' = NoCanvasSave
         /\ event' = Ended("canvas", CanvasUpdates(s, savedBackgroundUrl),
                           s.ok, s.rejected)
    ELSE IF s.pc = "threw"
    THEN /\ node' = node
         /\ cs' = NoCanvasSave
         /\ event' = Threw("canvas")
    ELSE /\ node' = node
         /\ cs' = s
         /\ event' = NoEvent

SessionFrame == UNCHANGED <<isOpen, modes, elements, nextId, job, editingTextId>>

SaveFrame == UNCHANGED <<histVars, detVars, uploadVars, seedVars, restVars>>

\* a mode button of the bottom toolbar is pressed: the mode is switched
\* off if it is on, otherwise it becomes the only mode that is on
toggleMode ==
    \E m \in Modes :
        /\ isOpen
        /\ modes' = IF modes[m] THEN [o \in Modes |-> FALSE] ELSE Enable(m)
        /\ UNCHANGED <<isOpen, modeEvent, elements, nextId, localImageUrl,
                       brushBitmap, job, editingTextId>>
        /\ UNCHANGED <<histVars, extVars>>

\* mouse up or mouse leave on the brush canvas in drawing mode
\* (lines 568-580): drawing.stopDrawing(), then saveCanvasToNode()
endStroke ==
    \E stroke \in BOOLEAN :
        /\ imageShown
        /\ modes["draw"]
        /\ cs.pc = "idle"
        /\ stroke => brushBitmap < MaxStrokes
        /\ brushBitmap' = IF stroke THEN brushBitmap + 1 ELSE brushBitmap
        /\ cs' = [pc |-> "uploadBrush", bg |-> localImageUrl,
                  elements |-> elements, canvasData |-> brushBitmap',
                  composite |-> NoUrl, ok |-> {}, rejected |-> FALSE]
        /\ event' = NoEvent
        /\ modeEvent' = NoModeEvent
        /\ UNCHANGED <<localImageUrl, node, es, cr, lastSavedElements,
                       lastResponse>>
        /\ SessionFrame
        /\ SaveFrame

\* the upload of the brush layer settles (line 193)
brushUploadSettles ==
    \E ok \in BOOLEAN :
        /\ cs.pc = "uploadBrush"
        /\ CanvasSaveGoes(IF ok THEN CompositeStep([cs EXCEPT !.ok = {"brush"}],
                                                   imageShown)
                          ELSE Catch(cs, imageShown),
                          UrlOf(cs.bg))
        /\ lastResponse' = "canvas"
        /\ modeEvent' = NoModeEvent
        /\ UNCHANGED <<localImageUrl, brushBitmap, es, cr, lastSavedElements>>
        /\ SessionFrame
        /\ SaveFrame

\* the background has loaded or failed in the call's generateCompositeImage
\* (line 196): the composite is painted and its upload starts
compositeLoads ==
    \E loaded \in BOOLEAN :
        /\ cs.pc = "loadComposite"
        /\ cs' = [cs EXCEPT !.pc = "uploadComposite",
                            !.composite = DataUrl(Paint(cs.bg, loaded, imageShown,
                                                        brushBitmap, cs.elements))]
        /\ event' = Generated("canvas", Pic(cs'.composite))
        /\ modeEvent' = NoModeEvent
        /\ UNCHANGED <<localImageUrl, brushBitmap, node, es, cr,
                       lastSavedElements, lastResponse>>
        /\ SessionFrame
        /\ SaveFrame

\* the upload of the composite settles (line 198)
compositeUploadSettles ==
    \E ok \in BOOLEAN :
        /\ cs.pc = "uploadComposite"
        /\ CanvasSaveGoes(
              IF ok THEN BackgroundStep([cs EXCEPT !.composite = Stored(cs.composite),
                                                  !.ok = @ \cup {"composite"}])
              ELSE Catch([cs EXCEPT !.composite = NoUrl], imageShown),
              UrlOf(cs.bg))
        /\ lastResponse' = "canvas"
        /\ modeEvent' = NoModeEvent
        /\ UNCHANGED <<localImageUrl, brushBitmap, es, cr, lastSavedElements>>
        /\ SessionFrame
        /\ SaveFrame

\* the upload of the background settles (lines 203-205): the stored copy
\* becomes the local background
backgroundUploadSettles ==
    \E ok \in BOOLEAN :
        /\ cs.pc = "uploadBackground"
        /\ localImageUrl' = IF ok THEN StoredRef(cs.bg) ELSE localImageUrl
        /\ CanvasSaveGoes(
              IF ok THEN [cs EXCEPT !.pc = "finish", !.ok = @ \cup {"background"}]
              ELSE Catch(cs, imageShown),
              IF ok THEN Stored(UrlOf(cs.bg)) ELSE UrlOf(cs.bg))
        /\ lastResponse' = "canvas"
        /\ modeEvent' = NoModeEvent
        /\ UNCHANGED <<brushBitmap, es, cr, lastSavedElements>>
        /\ SessionFrame
        /\ SaveFrame

\* the background has loaded or failed in the generateCompositeImage of the
\* catch block (line 211): the raw composite is what is saved
fallbackLoads ==
    \E loaded \in BOOLEAN :
        /\ cs.pc = "loadFallback"
        /\ CanvasSaveGoes(
              [cs EXCEPT !.pc = "finish",
                         !.composite = DataUrl(Paint(cs.bg, loaded, imageShown,
                                                     brushBitmap, cs.elements))],
              UrlOf(cs.bg))
        /\ modeEvent' = NoModeEvent
        /\ UNCHANGED <<localImageUrl, brushBitmap, es, cr, lastSavedElements,
                       lastResponse>>
        /\ SessionFrame
        /\ SaveFrame

(***************************************************************************)
(* The element-persistence effect and its saveUpdate (lines 332-370).      *)
(* The effect runs after the render that follows a change of elements.     *)
(***************************************************************************)
\* JSON.stringify(elements), field by field
ElementsJson(els) ==
    [i \in 1..Len(els) |->
        IF els[i].type = "text" THEN <<els[i].id, "text", els[i].text>>
        ELSE <<els[i].id, "arrow">>]

\* what the effect reads and writes, before it has run in a step
SaveState == [lastSavedElements |-> lastSavedElements, es |-> es,
              node |-> node, event |-> NoEvent]

\* the effect of lines 334-370 after a render with isOpen = open,
\* nodeId = id, elements = els and localImageUrl = u, with
\* hasInitializedRef.current = inited; sv: what the effect reads and writes.
\* The save it starts is the one followed from then on.
Persist(open, id, inited, els, u, sv) ==
    IF open /\ id # 0 /\ inited /\ ElementsJson(els) # sv.lastSavedElements
    THEN IF u # NoImage
         THEN [lastSavedElements |-> ElementsJson(els),
               es |-> [pc |-> "loadComposite", bg |-> u, elements |-> els,
                       composite |-> NoUrl],
               node |-> sv.node,
               event |-> [NoEvent EXCEPT !.saves = sv.event.saves + 1]]
         ELSE [lastSavedElements |-> ElementsJson(els),
               es |-> sv.es,
               node |-> Merge(sv.node, "editorElements" :> els),
               event |-> [Ended("elements", "editorElements" :> els, {}, FALSE)
                             EXCEPT !.saves = sv.event.saves + 1]]
    ELSE sv

\* the effect after a render with elements els and background u
PersistElements(els, u) ==
    LET sv == Persist(isOpen, props.nodeId, hasInitializedRef, els, u, SaveState)
    IN  /\ lastSavedElements' = sv.lastSavedElements
        /\ es' = sv.es
        /\ node' = sv.node
        /\ event' = sv.event

\* arrows.finishArrow on the arrow canvas (lines 582-590), then the effect
drawArrow ==
    /\ imageShown
    /\ modes["arrow"]
    /\ nextId <= MaxElements
    /\ es.pc = "idle"
    /\ elements' = Append(elements, Arrow(nextId))
    /\ nextId' = nextId + 1
    /\ PersistElements(elements', localImageUrl)
    /\ modeEvent' = NoModeEvent
    /\ UNCHANGED <<isOpen, modes, localImageUrl, brushBitmap, job,
                   editingTextId, cs, cr, lastResponse>>
    /\ SaveFrame

\* text.handleTextCanvasClick on the text canvas (lines 598-609): a text
\* with empty content is appended and edited; then the effect
clickTextCanvas ==
    /\ imageShown
    /\ modes["text"]
    /\ nextId <= MaxElements
    /\ editingTextId = NoEditing
    /\ es.pc = "idle"
    /\ elements' = Append(elements, Text(nextId))
    /\ nextId' = nextId + 1
    /\ editingTextId' = nextId
    /\ PersistElements(elements', localImageUrl)
    /\ modeEvent' = NoModeEvent
    /\ UNCHANGED <<isOpen, modes, localImageUrl, brushBitmap, job, cs, cr,
                   lastResponse>>
    /\ SaveFrame

\* text.handleTextChange(el.id, value), onChange of the input of the text
\* being edited (lines 619-620): the input shows el.text, so the element
\* takes the value; then the effect
handleTextChange ==
    \E i \in 1..Len(elements), value \in 0..MaxText :
        /\ isOpen
        /\ editingTextId # NoEditing
        /\ elements[i].id = editingTextId
        /\ elements[i].type = "text"
        /\ value # elements[i].text
        /\ es.pc = "idle"
        /\ elements' = [elements EXCEPT ![i].text = value]
        /\ PersistElements(elements', localImageUrl)
        /\ modeEvent' = NoModeEvent
        /\ UNCHANGED <<isOpen, modes, nextId, localImageUrl, brushBitmap, job,
                       editingTextId, cs, cr, lastResponse>>
        /\ SaveFrame

\* the background has loaded or failed in saveUpdate's
\* generateCompositeImage (line 347): the composite is painted and its
\* upload starts
saveUpdateLoads ==
    \E loaded \in BOOLEAN :
        /\ es.pc = "loadComposite"
        /\ es' = [es EXCEPT !.pc = "uploadComposite",
                            !.composite = DataUrl(Paint(es.bg, loaded, imageShown,
                                                        brushBitmap, es.elements))]
        /\ event' = Generated("elements", Pic(es'.composite))
        /\ modeEvent' = NoModeEvent
        /\ UNCHANGED <<localImageUrl, brushBitmap, node, cs, cr,
                       lastSavedElements, lastResponse>>
        /\ SessionFrame
        /\ SaveFrame

\* the updates object of saveUpdate (lines 344-363)
ElementUpdates(s, ok, shown) ==
    ("editorElements" :> s.elements)
    @@ ("resultUrl" :> IF ok THEN Stored(s.composite) ELSE s.composite)
    @@ (IF shown THEN ("editorCanvasSize" :> displayWidth) ELSE NoUpdates)

\* the upload of saveUpdate's composite settles (lines 349-355), then
\* onUpdate
saveUpdateUploadSettles ==
    \E ok \in BOOLEAN :
        /\ es.pc = "uploadComposite"
        /\ node' = Merge(node, ElementUpdates(es, ok, imageShown))
        /\ es' = NoElementSave
        /\ event' = Ended("elements", ElementUpdates(es, ok, imageShown),
                          IF ok THEN {"composite"} ELSE {}, ~ok)
        /\ lastResponse' = "elements"
        /\ modeEvent' = NoModeEvent
        /\ UNCHANGED <<localImageUrl, brushBitmap, cs, cr, lastSavedElements>>
        /\ SessionFrame
        /\ SaveFrame

(***************************************************************************)
(* handleCropApply (lines 234-258), called by the crop hook when the crop  *)
(* is applied.                                                             *)
(***************************************************************************)
\* the data URL the next crop of background u makes
CropOf(u) == 2 * ((u \div 2) + 1)

\* Apply in crop mode: the cropped image is shown at once and uploaded
handleCropApply ==
    /\ imageShown
    /\ modes["crop"]
    /\ cr.earlier = NoImage
    /\ localImageUrl \div 2 < MaxCrops
    /\ localImageUrl' = CropOf(localImageUrl)
    /\ modes' = [modes EXCEPT !["crop"] = FALSE]
    /\ cr' = [pc |-> "uploading", url |-> localImageUrl',
              earlier |-> IF cr.pc = "uploading" THEN cr.url ELSE NoImage,
              last |-> localImageUrl']
    /\ event' = NoEvent
    /\ modeEvent' = NoModeEvent
    /\ UNCHANGED <<isOpen, elements, nextId, brushBitmap, job, editingTextId,
                   node, cs, es, lastSavedElements, lastResponse>>
    /\ SaveFrame

\* the updates without the background
CropUpdatesResultOnly(url) == "resultUrl" :> url

\* the updates object of handleCropApply
CropUpdates(url) == ("resultUrl" :> url) @@ ("editorBackgroundUrl" :> url)

\* the upload of the cropped image settles: the node takes the clean crop
\* as result and as background
cropUploadSettles ==
    \E ok \in BOOLEAN :
        /\ cr.pc = "uploading"
        /\ localImageUrl' = IF ok THEN StoredRef(cr.url) ELSE localImageUrl
        /\ node' = Merge(node, CropUpdates(IF ok THEN Stored(UrlOf(cr.url))
                                           ELSE UrlOf(cr.url)))
        /\ cr' = [cr EXCEPT !.pc = "idle", !.url = NoImage]
        /\ event' = Ended("crop",
                          CropUpdates(IF ok THEN Stored(UrlOf(cr.url))
                                      ELSE UrlOf(cr.url)),
                          IF ok THEN {"crop"} ELSE {}, ~ok)
        /\ lastResponse' = "crop"
        /\ modeEvent' = NoModeEvent
        /\ UNCHANGED <<brushBitmap, cs, es, lastSavedElements>>
        /\ SessionFrame
        /\ SaveFrame

\* the upload of the call before the latest settles, in the same way
earlierCropUploadSettles ==
    \E ok \in BOOLEAN :
        /\ cr.earlier # NoImage
        /\ localImageUrl' = IF ok THEN StoredRef(cr.earlier) ELSE localImageUrl
        /\ node' = Merge(node, CropUpdates(IF ok THEN Stored(UrlOf(cr.earlier))
                                           ELSE UrlOf(cr.earlier)))
        /\ cr' = [cr EXCEPT !.earlier = NoImage]
        /\ event' = Ended("crop",
                          CropUpdates(IF ok THEN Stored(UrlOf(cr.earlier))
                                      ELSE UrlOf(cr.earlier)),
                          IF ok THEN {"crop"} ELSE {}, ~ok)
        /\ lastResponse' = "crop"
        /\ modeEvent' = NoModeEvent
        /\ UNCHANGED <<brushBitmap, cs, es, lastSavedElements>>
        /\ SessionFrame
        /\ SaveFrame

\* a session that has been opened on a node with an image, which is a
\* stored image or a data URL; the node holds the elements the session
\* was seeded with
InitOpenSession ==
    /\ isOpen = TRUE
    /\ modes = [m \in Modes |-> FALSE]
    /\ modeEvent = NoModeEvent
    /\ elements \in InitialElementLists
    /\ nextId = 2
    /\ localImageUrl \in {NodeImage, CroppedDataUrl}
    /\ brushBitmap = 0
    /\ job = NoJob
    /\ editingTextId = NoEditing
    /\ InitDet
    /\ InitUpload
    /\ props = NoProps
    /\ settings = Default
    /\ hasInitializedRef = TRUE
    /\ initializedNodeIdRef = NoProps.nodeId
    /\ seedEvent = NoSeedEvent
    /\ parentCalls = <<>>
    /\ InitRest
    /\ node = [FreshNode EXCEPT !["resultUrl"] = UrlOf(localImageUrl),
                                !["editorElements"] = elements]
    /\ cs = NoCanvasSave
    /\ es = NoElementSave
    /\ cr = NoCrop
    /\ lastSavedElements = ElementsJson(elements)
    /\ event = NoEvent
    /\ lastResponse = "none"
    /\ InitHistoryIdle

\* the two saves: brush strokes and arrows
NextSave ==
    \/ toggleMode
    \/ CloseEditor
    \/ endStroke
    \/ brushUploadSettles
    \/ compositeLoads
    \/ compositeUploadSettles
    \/ backgroundUploadSettles
    \/ fallbackLoads
    \/ drawArrow
    \/ saveUpdateLoads
    \/ saveUpdateUploadSettles

SpecSave == InitOpenSession /\ [][NextSave]_vars

\* crops and brush strokes
NextCrop ==
    \/ toggleMode
    \/ CloseEditor
    \/ endStroke
    \/ brushUploadSettles
    \/ compositeLoads
    \/ compositeUploadSettles
    \/ backgroundUploadSettles
    \/ fallbackLoads
    \/ handleCropApply
    \/ cropUploadSettles
    \/ earlierCropUploadSettles

SpecCrop == InitOpenSession /\ [][NextCrop]_vars

\* typing into text elements
NextText ==
    \/ toggleMode
    \/ clickTextCanvas
    \/ handleTextChange
    \/ handleTextBlur
    \/ saveUpdateLoads
    \/ saveUpdateUploadSettles

SpecText == InitOpenSession /\ [][NextText]_vars

(***************************************************************************)
(* Seeding of the session from the props (ImageEditorModal.tsx:271-301).   *)
(* The parent renders the modal with isOpen and the fields of the node it  *)
(* is opened for; the effect runs after every render in which one of its   *)
(* dependencies changed.  A render and the effect it triggers are one      *)
(* step.  seedEvent records what the step was, whether it changed the      *)
(* local state, the nodeId of the render before, and whether that render   *)
(* closed the modal.                                                       *)
(***************************************************************************)
\* a || d of JavaScript on an optional string
OrDefault(v, d) == IF v = Undefined \/ v = "" THEN d ELSE v

\* the props the parent can pass
PropsSet ==
    [nodeId : 1..MaxNodes,
     initial : {[s \in SettingNames |-> v] : v \in {Undefined, "stored"}},
     imageUrl : {NoImage, NodeImage},
     initialBackgroundUrl : {NoImage, StoredCropUrl},
     initialElements : {[defined |-> FALSE, list |-> <<>>],
                        [defined |-> TRUE, list |-> <<Arrow(1)>>]}]

\* the local state the effect reads and writes
Local == [settings |-> settings, localImageUrl |-> localImageUrl,
          elements |-> elements,
          hasInitializedRef |-> hasInitializedRef,
          initializedNodeIdRef |-> initializedNodeIdRef]

\* the part of it the user sees
Session(st) == [settings |-> st.settings, localImageUrl |-> st.localImageUrl,
                elements |-> st.elements]

\* what lines 289-294 set from the props p
Seeded(p) ==
    [settings |-> [s \in SettingNames |-> OrDefault(p.initial[s], Default[s])],
     localImageUrl |-> IF p.initialBackgroundUrl # NoImage
                       THEN p.initialBackgroundUrl ELSE p.imageUrl,
     elements |-> IF p.initialElements.defined
                  THEN p.initialElements.list ELSE <<>>]

\* the effect without the test of line 284: it seeds whenever it runs open
InitEffectAlwaysSeeds(open, p, st) ==
    IF ~open
    THEN [st EXCEPT !.hasInitializedRef = FALSE, !.initializedNodeIdRef = 0]
    ELSE [settings |-> Seeded(p).settings,
          localImageUrl |-> Seeded(p).localImageUrl,
          elements |-> Seeded(p).elements,
          hasInitializedRef |-> TRUE,
          initializedNodeIdRef |-> p.nodeId]

\* the effect that keeps the refs when the modal is closed
InitEffectKeepsIdentity(open, p, st) ==
    IF ~open
    THEN st
    ELSE IF st.hasInitializedRef /\ st.initializedNodeIdRef = p.nodeId
    THEN st
    ELSE [settings |-> Seeded(p).settings,
          localImageUrl |-> Seeded(p).localImageUrl,
          elements |-> Seeded(p).elements,
          hasInitializedRef |-> TRUE,
          initializedNodeIdRef |-> p.nodeId]

\* the effect of lines 276-301, on the local state st
InitEffect(open, p, st) ==
    IF ~open
    THEN [st EXCEPT !.hasInitializedRef = FALSE, !.initializedNodeIdRef = 0]
    ELSE IF st.hasInitializedRef /\ st.initializedNodeIdRef = p.nodeId
    THEN st
    ELSE [settings |-> Seeded(p).settings,
          localImageUrl |-> Seeded(p).localImageUrl,
          elements |-> Seeded(p).elements,
          hasInitializedRef |-> TRUE,
          initializedNodeIdRef |-> p.nodeId]

\* one of the dependencies of line 301 differs; fresh: initialElements is a
\* new array, whatever it holds.  initialBackgroundUrl is not a dependency.
DepsChanged(open, p, fresh) ==
    \/ open # isOpen
    \/ p.nodeId # props.nodeId
    \/ p.initial # props.initial
    \/ p.imageUrl # props.imageUrl
    \/ p.initialElements # props.initialElements
    \/ fresh

SeedFrame ==
    UNCHANGED <<modes, modeEvent, nextId, brushBitmap, job, editingTextId,
                histVars, detVars, uploadVars, saveVars, restVars>>

\* the parent renders the modal with open and p
Render(kind, open, p, fresh) ==
    LET new == IF DepsChanged(open, p, fresh)
               THEN InitEffect(open, p, Local) ELSE Local
    IN  /\ isOpen' = open
        /\ props' = p
        /\ settings' = new.settings
        /\ localImageUrl' = new.localImageUrl
        /\ elements' = new.elements
        /\ hasInitializedRef' = new.hasInitializedRef
        /\ initializedNodeIdRef' = new.initializedNodeIdRef
        /\ seedEvent' = [kind |-> kind,
                         changed |-> Session(new) # Session(Local),
                         nodeBefore |-> props.nodeId,
                         afterClose |-> seedEvent.kind = "close"]
        /\ parentCalls' = <<>>
        /\ SeedFrame

\* the editor is opened for a node
openModal ==
    /\ ~isOpen
    /\ \E p \in PropsSet : Render("open", TRUE, p, FALSE)

\* the editor is closed
closeModal ==
    /\ isOpen
    /\ Render("close", FALSE, props, FALSE)

\* while the editor is open for a node, the node's fields change, or the
\* same fields come in a new array
propsChange ==
    /\ isOpen
    /\ \E p \in PropsSet :
          /\ p.nodeId = props.nodeId
          /\ Render("props", TRUE, p, p = props)

\* while the editor is open, it is given another node
switchNode ==
    /\ isOpen
    /\ \E p \in PropsSet :
          /\ p.nodeId # props.nodeId
          /\ Render("switch", TRUE, p, FALSE)

\* the node field a setting is persisted in (lines 412-417)
FieldOf == [prompt |-> "prompt", selectedModel |-> "imageModel",
            selectedAspectRatio |-> "aspectRatio",
            selectedResolution |-> "resolution"]

OnUpdate(id, updates) == [fn |-> "onUpdate", id |-> id, updates |-> updates,
                          prompt |-> "", batchCount |-> 0]

OnGenerate(id, prompt, count) ==
    [fn |-> "onGenerate", id |-> id, updates |-> <<>>, prompt |-> prompt,
     batchCount |-> count]

\* the user types a prompt (setPrompt, line 847), chooses a model, an aspect
\* ratio or a resolution (lines 421-443; a model that does not support the
\* aspect ratio resets it to 'Auto'), crops, or draws an arrow
editSession ==
    /\ isOpen
    /\ \/ /\ settings' = [settings EXCEPT !["prompt"] = "chosen"]
          /\ parentCalls' = <<>>
          /\ UNCHANGED <<localImageUrl, elements>>
       \/ \E s \in SettingNames \ {"prompt"}, supported \in BOOLEAN :
             /\ s # "selectedModel" => supported
             /\ settings' =
                   IF supported THEN [settings EXCEPT ![s] = "chosen"]
                   ELSE [settings EXCEPT ![s] = "chosen",
                                         !["selectedAspectRatio"] = "Auto"]
             /\ parentCalls' = <<OnUpdate(props.nodeId, FieldOf[s] :> "chosen")>>
             /\ UNCHANGED <<localImageUrl, elements>>
       \/ /\ localImageUrl' = CroppedDataUrl
          /\ parentCalls' = <<>>
          /\ UNCHANGED <<settings, elements>>
       \/ /\ Len(elements) < MaxElements
          /\ \A i \in 1..Len(elements) : elements[i].id # nextId
          /\ elements' = Append(elements, Arrow(nextId))
          /\ parentCalls' = <<>>
          /\ UNCHANGED <<settings, localImageUrl>>
    /\ seedEvent' = [kind |-> "edit", changed |-> TRUE,
                     nodeBefore |-> props.nodeId, afterClose |-> FALSE]
    /\ UNCHANGED <<isOpen, props, hasInitializedRef, initializedNodeIdRef>>
    /\ SeedFrame

\* the batch counts of the prompt bar; useState(4)
BatchCounts == {1, 4}

\* the generate button without the onUpdate of lines 412-417
GenerateCallsOnly(id, st, count) ==
    <<OnGenerate(id, st["prompt"], count)>>

\* the calls of handleGenerateClick (lines 411-419) with the settings st
GenerateCalls(id, st, count) ==
    <<OnUpdate(id, [f \in {FieldOf[s] : s \in SettingNames} |->
                      st[CHOOSE s \in SettingNames : FieldOf[s] = f]]),
      OnGenerate(id, st["prompt"], count)>>

\* the generate button of the prompt bar (line 862)
handleGenerateClick ==
    /\ isOpen
    /\ \E count \in BatchCounts :
          parentCalls' = GenerateCalls(props.nodeId, settings, count)
    /\ seedEvent' = [kind |-> "generate", changed |-> FALSE,
                     nodeBefore |-> props.nodeId, afterClose |-> FALSE]
    /\ UNCHANGED <<isOpen, props, settings, localImageUrl, elements,
                   hasInitializedRef, initializedNodeIdRef>>
    /\ SeedFrame

NextSeed ==
    \/ openModal
    \/ closeModal
    \/ propsChange
    \/ switchNode
    \/ editSession

SpecSeed == InitEditorSession /\ [][NextSeed]_vars

\* sessions in which generation is requested
NextGenerate ==
    \/ openModal
    \/ closeModal
    \/ editSession
    \/ handleGenerateClick

SpecGenerate == InitEditorSession /\ [][NextGenerate]_vars

(***************************************************************************)
(* Opening and closing with the element-persistence effect.  The render    *)
(* that opens the modal runs the seeding effect and then the persistence   *)
(* effect (declared in this order, lines 276 and 334), with the elements   *)
(* and the background the render started with; the setters of the seeding  *)
(* effect cause a second render, after which the persistence effect runs   *)
(* again.  Both renders are one step.  The persistence ref lives as long   *)
(* as the component, over all its sessions.                                *)
(***************************************************************************)
OpenFrame ==
    UNCHANGED <<nextId, brushBitmap, job, editingTextId, modeEvent, cs, cr,
                lastResponse, histVars, detVars, uploadVars, restVars>>

\* the props of one node without persisted settings: its image, background
\* and elements vary
OpenProps ==
    {p \in PropsSet : p.nodeId = NoProps.nodeId /\ p.initial = NoProps.initial}

\* the modal is opened with the props p
openSession ==
    /\ ~isOpen
    /\ \E p \in OpenProps :
          LET new == InitEffect(TRUE, p, Local)
              first == Persist(TRUE, p.nodeId, new.hasInitializedRef,
                               elements, localImageUrl, SaveState)
              second == Persist(TRUE, p.nodeId, new.hasInitializedRef,
                                new.elements, new.localImageUrl, first)
          IN  /\ isOpen' = TRUE
              /\ props' = p
              /\ settings' = new.settings
              /\ localImageUrl' = new.localImageUrl
              /\ elements' = new.elements
              /\ hasInitializedRef' = new.hasInitializedRef
              /\ initializedNodeIdRef' = new.initializedNodeIdRef
              /\ seedEvent' = [kind |-> "open",
                               changed |-> Session(new) # Session(Local),
                               nodeBefore |-> props.nodeId,
                               afterClose |-> seedEvent.kind = "close"]
              /\ lastSavedElements' = second.lastSavedElements
              /\ es' = second.es
              /\ node' = second.node
              /\ event' = second.event
    /\ parentCalls' = <<>>
    /\ UNCHANGED modes
    /\ OpenFrame

\* the modal is closed: both effects run and return at their first test
closeSession ==
    /\ isOpen
    /\ LET new == InitEffect(FALSE, props, Local)
       IN  /\ hasInitializedRef' = new.hasInitializedRef
           /\ initializedNodeIdRef' = new.initializedNodeIdRef
    /\ isOpen' = FALSE
    /\ modes' = [m \in Modes |-> FALSE]
    /\ seedEvent' = [kind |-> "close", changed |-> FALSE,
                     nodeBefore |-> props.nodeId, afterClose |-> FALSE]
    /\ PersistElements(elements, localImageUrl)
    /\ parentCalls' = <<>>
    /\ UNCHANGED <<props, settings, localImageUrl, elements>>
    /\ OpenFrame

\* a render with a new onUpdate, or a crop that changes the background and
\* with it generateCompositeImage: the persistence effect runs again
rerunEffect ==
    /\ isOpen
    /\ \E u \in {localImageUrl, CroppedDataUrl} :
          /\ localImageUrl' = u
          /\ PersistElements(elements, u)
    /\ seedEvent' = [kind |-> "rerun", changed |-> FALSE,
                     nodeBefore |-> props.nodeId, afterClose |-> FALSE]
    /\ parentCalls' = <<>>
    /\ UNCHANGED <<isOpen, modes, props, settings, elements,
                   hasInitializedRef, initializedNodeIdRef>>
    /\ OpenFrame

\* sessions without an edit of the element list
NextOpen ==
    \/ openSession
    \/ closeSession
    \/ rerunEffect
    \/ saveUpdateLoads
    \/ saveUpdateUploadSettles

SpecOpen == InitEditorSession /\ [][NextOpen]_vars

(***************************************************************************)
(* useGenerationRecovery (part_003:17-94).  The hook is rendered with the  *)
(* nodes of the canvas; a change of the nodes and the render and effect    *)
(* that follow it are one step.  A checkStatus call is followed from its   *)
(* request to its end; a call for a video result waits for the last frame  *)
(* between the test of the timestamps and updateNode.                      *)
(***************************************************************************)
\* the separator of join and split
Comma == 0

IdSeq == [i \in 1..MaxPolled |-> i]

RECURSIVE Join(_)
\* ids.join(',')
Join(ids) ==
    IF Len(ids) = 0 THEN <<>>
    ELSE IF Len(ids) = 1 THEN <<ids[1]>>
    ELSE <<ids[1], Comma>> \o Join(Tail(ids))

RECURSIVE Split(_)
\* str.split(',') of a string that is not empty
Split(str) ==
    IF Len(str) <= 1 THEN str
    ELSE IF str[2] = Comma THEN <<str[1]>> \o Split(SubSeq(str, 3, Len(str)))
    ELSE str

\* lines 73-76
loadingNodeIds(ns) ==
    Join(SelectSeq(IdSeq, LAMBDA n : ns[n].status = "LOADING"))

\* checkStatus is called for the first id only
CheckFirst(ft, ids) ==
    [n \in NodeIds |->
        IF Len(ids) > 0 /\ ids[1] = n
        THEN Min(ft[n] + 1, MaxChecks) ELSE ft[n]]

\* checkStatus is called for every id of ids (line 85)
CheckAll(ft, ids) ==
    [n \in NodeIds |->
        IF \E i \in 1..Len(ids) : ids[i] = n
        THEN Min(ft[n] + 1, MaxChecks) ELSE ft[n]]

\* the nodes become ns: the render, and the effect of lines 78-93 when its
\* dependency changed
SetNodes(ns, ft) ==
    /\ gnodes' = ns
    /\ IF loadingNodeIds(ns) = loadingNodeIds(gnodes)
       THEN /\ pollIds' = pollIds
            /\ fetches' = ft
       ELSE IF loadingNodeIds(ns) = <<>>
       THEN /\ pollIds' = <<>>
            /\ fetches' = ft
       ELSE /\ pollIds' = Split(loadingNodeIds(ns))
            /\ fetches' = CheckAll(ft, Split(loadingNodeIds(ns)))

\* updateNode of the canvas: the fields of updates replace the node's
UpdateNode(ns, id, updates) ==
    [ns EXCEPT ![id] = [f \in DOMAIN @ |->
                           IF f \in DOMAIN updates THEN updates[f] ELSE @[f]]]

RecoveryFrame ==
    UNCHANGED <<histVars, editorVars, detVars, uploadVars, saveVars, seedVars,
                chatVars, lateVars>>

\* a generation is started for node n; starts: the values its caller may
\* give to generationStartTime
startGeneration(n, starts) ==
    /\ \E start \in starts :
          SetNodes([gnodes EXCEPT ![n].status = "LOADING",
                                  ![n].generationStartTime = start], fetches)
    /\ backend' = [backend EXCEPT ![n].running = TRUE]
    /\ recEvent' = NoRecEvent
    /\ UNCHANGED <<clock, extracts>>
    /\ RecoveryFrame

\* the generation of node n fails at the caller that started it
generationFails(n) ==
    /\ gnodes[n].status = "LOADING"
    /\ SetNodes([gnodes EXCEPT ![n].status = "ERROR"], fetches)
    /\ recEvent' = NoRecEvent
    /\ UNCHANGED <<backend, clock, extracts>>
    /\ RecoveryFrame

\* the backend finishes the generation of node n and stores its result, of
\* one of types and with createdAt one of ats
backendFinishes(n, types, ats) ==
    /\ backend[n].running
    /\ \E ty \in types, at \in ats :
          backend' = [backend EXCEPT ![n] =
              [status |-> "success", resultUrl |-> clock,
               createdAt |-> at, type |-> ty, running |-> FALSE]]
    /\ recEvent' = NoRecEvent
    /\ UNCHANGED <<gnodes, clock, pollIds, fetches, extracts>>
    /\ RecoveryFrame

\* a millisecond passes
tick ==
    /\ clock < MaxTime
    /\ clock' = clock + 1
    /\ recEvent' = NoRecEvent
    /\ UNCHANGED <<gnodes, backend, pollIds, fetches, extracts>>
    /\ RecoveryFrame

\* the interval of line 90 fires
intervalFires ==
    /\ pollIds # <<>>
    /\ fetches' = CheckAll(fetches, pollIds)
    /\ recEvent' = NoRecEvent
    /\ UNCHANGED <<gnodes, backend, clock, pollIds, extracts>>
    /\ RecoveryFrame

\* lines 36-42: the result is older than the generation the node waits for
IsStale(nd, data) ==
    /\ nd.generationStartTime # Unset
    /\ data.createdAt # Unset
    /\ data.createdAt < nd.generationStartTime

\* the updates that leave the timestamp of the generation in the node
SuccessUpdatesKeepStart(data) ==
    [status |-> "SUCCESS", resultUrl |-> data.resultUrl,
     errorMessage |-> FALSE]

\* lines 47-52
SuccessUpdates(data) ==
    [status |-> "SUCCESS", resultUrl |-> data.resultUrl,
     errorMessage |-> FALSE, generationStartTime |-> Unset]

Ends(kind, n, data, updates) ==
    recEvent' = [kind |-> kind, id |-> n, data |-> data, updates |-> updates,
                 startTime |-> gnodes[n].generationStartTime]

\* checkStatus from the response to the call of updateNode, or to the wait
\* for the last frame (lines 28-64); left is fetches without the request
CheckStatus(n, data, left) ==
    IF ~(data.status = "success" /\ data.resultUrl # Unset)
    THEN /\ Ends("nothing", n, data, <<>>)
         /\ fetches' = left
         /\ UNCHANGED <<gnodes, pollIds, extracts>>
    ELSE IF IsStale(gnodes[n], data)
    THEN /\ Ends("stale", n, data, <<>>)
         /\ fetches' = left
         /\ UNCHANGED <<gnodes, pollIds, extracts>>
    ELSE IF data.type = "video"
    THEN /\ Len(extracts[n]) < MaxChecks
         /\ extracts' = [extracts EXCEPT ![n] = Append(@, data)]
         /\ fetches' = left
         /\ recEvent' = NoRecEvent
         /\ UNCHANGED <<gnodes, pollIds>>
    ELSE /\ Ends("update", n, data, SuccessUpdates(data))
         /\ SetNodes(UpdateNode(gnodes, n, SuccessUpdates(data)), left)
         /\ UNCHANGED extracts

\* the status request of node n settles: the fetch is rejected, or answers
\* with a status that is not ok, or with the result the backend holds
\* (lines 27-29, 67-69)
statusSettles(n, outcome) ==
    /\ fetches[n] > 0
    /\ LET left == [fetches EXCEPT ![n] = @ - 1]
       IN  IF outcome = "ok"
           THEN CheckStatus(n, backend[n], left)
           ELSE /\ Ends(IF outcome = "rejected" THEN "caught" ELSE "nothing",
                        n, NoResult, <<>>)
                /\ fetches' = left
                /\ UNCHANGED <<gnodes, pollIds, extracts>>
    /\ UNCHANGED <<backend, clock>>
    /\ RecoveryFrame

statusResponse(n) ==
    \E outcome \in {"rejected", "notOk", "ok"} : statusSettles(n, outcome)

\* extractVideoLastFrame settles for the oldest waiting call of node n
\* (lines 55-64)
extractSettles(n) ==
    /\ extracts[n] # <<>>
    /\ LET data == Head(extracts[n])
       IN  \E ok \in BOOLEAN :
              LET updates ==
                      IF ok
                      THEN ("lastFrame" :> data.resultUrl) @@ SuccessUpdates(data)
                      ELSE SuccessUpdates(data)
              IN  /\ Ends("update", n, data, updates)
                  /\ SetNodes(UpdateNode(gnodes, n, updates), fetches)
    /\ extracts' = [extracts EXCEPT ![n] = Tail(@)]
    /\ UNCHANGED <<backend, clock>>
    /\ RecoveryFrame

\* One node generates, with every kind of result and timestamp, while the
\* other nodes stay idle.
Watched == 1

NextCheck ==
    \/ startGeneration(Watched, {Unset, clock})
    \/ generationFails(Watched)
    \/ backendFinishes(Watched, {"image", "video"}, {Unset, clock})
    \/ tick
    \/ intervalFires
    \/ statusResponse(Watched)
    \/ extractSettles(Watched)

SpecCheck == InitEditorSession /\ [][NextCheck]_vars

\* Every node generates images, with both timestamps set.
NextPoll ==
    \/ \E n \in NodeIds : startGeneration(n, {clock})
    \/ \E n \in NodeIds : generationFails(n)
    \/ \E n \in NodeIds : backendFinishes(n, {"image"}, {clock})
    \/ tick
    \/ intervalFires
    \/ \E n \in NodeIds : statusResponse(n)

\* The timer of the interval fires as long as the interval exists, and a
\* status request that is repeated is answered in the end.
FairPoll ==
    /\ WF_vars(intervalFires)
    /\ \A n \in NodeIds : SF_vars(statusSettles(n, "ok"))

SpecPoll == InitEditorSession /\ [][NextPoll]_vars /\ FairPoll

(***************************************************************************)
(* useChatAgent.ts with its caller ChatPanel.tsx: the chat of the          *)
(* assistant panel.  A message is [role, content, req], req being the      *)
(* number of the sendMessage call that appended it.                        *)
(***************************************************************************)
ChatFrame ==
    UNCHANGED <<histVars, editorVars, detVars, uploadVars, saveVars, seedVars,
                recVars, lateVars>>

\* what the user types
ChatContents == {"hi", "more"}

\* a || b on strings
OrElse(a, b) == IF a # "" THEN a ELSE b

\* The ways the request of sendMessage settles: fetch rejects; the response
\* is not ok, its body being JSON with or without a field error, or no JSON;
\* the response is ok, its body being JSON with or without a topic, or no
\* JSON.
ChatResponses ==
    {[NoResponse EXCEPT !.kind = "rejected", !.message = "Failed to fetch"]}
    \cup {[NoResponse EXCEPT !.kind = "notOk", !.json = j, !.error = e,
                             !.statusText = t] :
             j \in BOOLEAN, e \in {"", "quota"}, t \in {"", "Bad Request"}}
    \cup {[NoResponse EXCEPT !.kind = "ok", !.json = j, !.response = "reply",
                             !.topic = t,
                             !.message = IF j THEN "" ELSE "Unexpected token"] :
             j \in BOOLEAN, t \in {"", "cats"}}

NotThrown == [thrown |-> FALSE, isError |-> FALSE, message |-> ""]

Raised(msg) == [thrown |-> TRUE, isError |-> TRUE, message |-> msg]

\* what the try block of sendMessage throws for a response
TryBlock(resp) ==
    CASE resp.kind = "rejected" -> Raised(resp.message)
      [] resp.kind = "notOk" ->
            Raised(OrElse(IF resp.json THEN resp.error ELSE "", resp.statusText))
      [] resp.kind = "ok" /\ ~resp.json -> Raised(resp.message)
      [] OTHER -> NotThrown

ErrorMessageGeneric(err) == "Failed to send message"

ErrorMessage(err) ==
    IF err.isError THEN err.message ELSE "Failed to send message"

\* handleSend of the panel calls sendMessage up to its first await
handleSend ==
    /\ ~isLoading
    /\ nextReq <= MaxSends
    /\ \E content \in ChatContents :
          /\ messages' = Append(messages, [role |-> "user", content |-> content,
                                           req |-> nextReq])
          /\ inflight' = [req |-> nextReq,
                          sessionId |-> IF sessionId = 0 THEN nextSession
                                        ELSE sessionId,
                          content |-> content]
    /\ sessionId' = inflight'.sessionId
    /\ nextSession' = IF sessionId = 0 THEN nextSession + 1 ELSE nextSession
    /\ error' = NoError
    /\ isLoading' = TRUE
    /\ nextReq' = nextReq + 1
    /\ chatEvent' = [NoChatEvent EXCEPT !.kind = "sent", !.req = nextReq]
    /\ UNCHANGED topic
    /\ ChatFrame

\* the request of sendMessage settles and the call runs to its end
chatSettles ==
    /\ inflight # NoRequest
    /\ \E resp \in ChatResponses :
          LET err == TryBlock(resp) IN
          /\ IF err.thrown
             THEN /\ error' = ErrorMessage(err)
                  /\ UNCHANGED <<messages, topic>>
             ELSE /\ messages' = Append(messages,
                                        [role |-> "assistant",
                                         content |-> resp.response,
                                         req |-> inflight.req])
                  /\ topic' = OrElse(resp.topic, topic)
                  /\ UNCHANGED error
          /\ chatEvent' = [kind |-> IF err.thrown THEN "failed" ELSE "succeeded",
                           req |-> inflight.req, resp |-> resp,
                           rejected |-> FALSE]
    /\ isLoading' = FALSE
    /\ inflight' = NoRequest
    /\ UNCHANGED <<sessionId, nextReq, nextSession>>
    /\ ChatFrame

\* the button New Chat, which the panel shows while there are messages
startNewChat ==
    /\ Len(messages) > 0
    /\ messages' = <<>>
    /\ topic' = ""
    /\ sessionId' = nextSession
    /\ nextSession' = nextSession + 1
    /\ error' = NoError
    /\ chatEvent' = [NoChatEvent EXCEPT !.kind = "reset"]
    /\ UNCHANGED <<isLoading, inflight, nextReq>>
    /\ ChatFrame

NextChat ==
    \/ handleSend
    \/ chatSettles
    \/ startNewChat

SpecChat == InitEditorSession /\ [][NextChat]_vars

(***************************************************************************)
(* server/agent/index.js: sendMessage of the chat agent on the in-memory   *)
(* sessions.  A message is [role, call], call being the number of the      *)
(* sendMessage call that pushed it.  The graph and generateTopicTitle are  *)
(* external: each settles with a value or rejects.  Sessions are not       *)
(* deleted.                                                                *)
(***************************************************************************)
AgentFrame ==
    UNCHANGED <<histVars, editorVars, detVars, uploadVars, saveVars, seedVars,
                recVars, chatVars, frameVars, closureVars>>

\* the titles generateTopicTitle returns
Titles == {"Cats", "Logo ideas"}

\* the map after getSession(id)
getSession(id) ==
    IF sessions[id].has THEN sessions
    ELSE [sessions EXCEPT ![id] = [has |-> TRUE, messages |-> <<>>,
                                   topic |-> ""]]

HasRole(msgs, role) == \E i \in 1..Len(msgs) : msgs[i].role = role

\* sendMessage up to the await of graph.invoke
agentSend(id) ==
    /\ nextCall <= MaxCalls
    /\ LET map == getSession(id) IN
       /\ sessions' = [map EXCEPT ![id].messages =
                          Append(@, [role |-> "human", call |-> nextCall])]
       /\ agentCalls' = [agentCalls EXCEPT ![nextCall] =
                            [NoAgentCall EXCEPT !.pc = "invoke",
                                                !.sessionId = id,
                                                !.before = map[id].messages]]
    /\ nextCall' = nextCall + 1
    /\ AgentFrame

\* graph.invoke of call c settles; sendMessage goes on to the await of
\* generateTopicTitle or to its end
invokeSettles(c, ok) ==
    /\ agentCalls[c].pc = "invoke"
    /\ LET id == agentCalls[c].sessionId
           msgs == Append(sessions[id].messages, [role |-> "ai", call |-> c])
           first == ~HasRole(sessions[id].messages, "ai")
       IN
       IF ~ok
       THEN /\ agentCalls' = [agentCalls EXCEPT ![c].pc = "rejected"]
            /\ UNCHANGED sessions
       ELSE /\ sessions' = [sessions EXCEPT ![id].messages = msgs]
            /\ agentCalls' =
                  [agentCalls EXCEPT
                      ![c].first = first,
                      ![c].topic = sessions[id].topic,
                      ![c].pc = IF Len(msgs) = 2 /\ sessions[id].topic = ""
                                THEN "topic" ELSE "returned"]
    /\ UNCHANGED nextCall
    /\ AgentFrame

\* generateTopicTitle of call c settles and sendMessage returns
topicSettles(c, ok) ==
    /\ agentCalls[c].pc = "topic"
    /\ IF ok
       THEN \E title \in Titles :
               /\ sessions' = [sessions EXCEPT
                                  ![agentCalls[c].sessionId].topic = title]
               /\ agentCalls' = [agentCalls EXCEPT ![c].topic = title,
                                                   ![c].pc = "returned"]
       ELSE /\ agentCalls' = [agentCalls EXCEPT ![c].topic = "New Chat",
                                                ![c].pc = "returned"]
            /\ UNCHANGED sessions
    /\ UNCHANGED nextCall
    /\ AgentFrame

NextAgent ==
    \/ \E id \in SessionIds : agentSend(id)
    \/ \E c \in 1..MaxCalls, ok \in BOOLEAN : invokeSettles(c, ok)
    \/ \E c \in 1..MaxCalls, ok \in BOOLEAN : topicSettles(c, ok)

SpecAgent == InitEditorSession /\ [][NextAgent]_vars

(***************************************************************************)
(* NodeControls.tsx: the frame inputs of a video node in frame-to-frame    *)
(* mode.  Indexes are those of the code, from 0.                           *)
(***************************************************************************)
FramesFrame ==
    UNCHANGED <<histVars, editorVars, detVars, uploadVars, saveVars, seedVars,
                recVars, chatVars, agentVars, closureVars>>

FrameNodes == 1..MaxFrames

Ids(list) == {list[i] : i \in 1..Len(list)}

\* the sequences of distinct image nodes
NodeLists ==
    {list \in UNION {[1..n -> FrameNodes] : n \in 0..MaxFrames} :
        \A i, j \in 1..Len(list) : list[i] = list[j] => i = j}

\* idx === 0 ? 'start' : 'end'
OrderAt(idx) == IF idx = 0 THEN "start" ELSE "end"

\* list.map((x, idx) => ({...x, order: idx === 0 ? 'start' : 'end'}))
Relabel(list) ==
    [i \in 1..Len(list) |-> [nodeId |-> list[i].nodeId, order |-> OrderAt(i - 1)]]

\* the array after arr.splice(index, 1), for an index inside the array
RemoveAt(arr, index) ==
    SubSeq(arr, 1, index) \o SubSeq(arr, index + 2, Len(arr))

\* the array after arr.splice(index, 0, item)
InsertAt(arr, index, item) ==
    LET at == Min(index, Len(arr)) IN
    SubSeq(arr, 1, at) \o <<item>> \o SubSeq(arr, at + 1, Len(arr))

\* the frame inputs whose image node is connected, in the stored order
frameInputsWithUrls ==
    SelectSeq(frameInputs, LAMBDA input : input.nodeId \in Ids(connectedImageNodes))

\* the value handleFrameReorder passes to onUpdate: the indexes are applied
\* to data.frameInputs
Reordered(fromIndex, toIndex) ==
    LET moved == frameInputs[fromIndex + 1]
    IN Relabel(InsertAt(RemoveAt(frameInputs, fromIndex), toIndex, moved))

\* the parent renders the controls with the stored data of a node
nodeLoaded ==
    /\ frameEvent.kind = "none" /\ videoMode = "standard"
    /\ connectedImageNodes = <<>>
    /\ \E list \in NodeLists :
          /\ list # <<>>
          /\ frameInputs' = Relabel([i \in 1..Len(list) |->
                                        [nodeId |-> list[i], order |-> "end"]])
    /\ videoMode' = "frame-to-frame"
    /\ frameEvent' = [NoFrameEvent EXCEPT !.kind = "loaded"]
    /\ UNCHANGED <<connectedImageNodes, draggedIndex>>
    /\ FramesFrame

\* an image node is connected to the video node, or disconnected from it
connectionChanges ==
    /\ draggedIndex = -1
    /\ \/ \E n \in FrameNodes \ Ids(connectedImageNodes) :
             connectedImageNodes' = Append(connectedImageNodes, n)
       \/ \E i \in 1..Len(connectedImageNodes) :
             connectedImageNodes' = RemoveAt(connectedImageNodes, i - 1)
    /\ frameEvent' = [NoFrameEvent EXCEPT !.kind = "connection"]
    /\ UNCHANGED <<frameInputs, videoMode, draggedIndex>>
    /\ FramesFrame

handleVideoModeChange(mode) ==
    /\ draggedIndex = -1
    /\ mode = "frame-to-frame" => Len(connectedImageNodes) > 0
    /\ videoMode' = mode
    /\ frameInputs' =
          IF mode = "frame-to-frame"
          THEN LET first == SubSeq(connectedImageNodes, 1,
                                   Min(2, Len(connectedImageNodes)))
               IN [i \in 1..Len(first) |->
                      [nodeId |-> first[i], order |-> OrderAt(i - 1)]]
          ELSE <<>>
    /\ frameEvent' = [NoFrameEvent EXCEPT !.kind = "mode"]
    /\ UNCHANGED <<connectedImageNodes, draggedIndex>>
    /\ FramesFrame

\* onDragStart of the frame displayed at index
dragStart(index) ==
    /\ videoMode = "frame-to-frame"
    /\ draggedIndex = -1
    /\ index < Len(frameInputsWithUrls)
    /\ draggedIndex' = index
    /\ frameEvent' = [NoFrameEvent EXCEPT !.kind = "drag"]
    /\ UNCHANGED <<frameInputs, videoMode, connectedImageNodes>>
    /\ FramesFrame

\* onDrop on the frame displayed at index, with handleFrameReorder
dropOnFrame(index) ==
    /\ videoMode = "frame-to-frame"
    /\ draggedIndex # -1
    /\ index < Len(frameInputsWithUrls)
    /\ frameInputs' = IF frameInputs = <<>> \/ draggedIndex = index
                      THEN frameInputs
                      ELSE Reordered(draggedIndex, index)
    /\ draggedIndex' = -1
    /\ frameEvent' = [kind |-> "drop", from |-> draggedIndex, to |-> index,
                      shown |-> frameInputsWithUrls, before |-> frameInputs]
    /\ UNCHANGED <<videoMode, connectedImageNodes>>
    /\ FramesFrame

\* onDragEnd of a drag that was not dropped on a frame
dragEnd ==
    /\ draggedIndex # -1
    /\ draggedIndex' = -1
    /\ frameEvent' = [NoFrameEvent EXCEPT !.kind = "dragEnd"]
    /\ UNCHANGED <<frameInputs, videoMode, connectedImageNodes>>
    /\ FramesFrame

NextFrames ==
    \/ nodeLoaded
    \/ connectionChanges
    \/ \E mode \in {"standard", "frame-to-frame"} : handleVideoModeChange(mode)
    \/ \E index \in 0..(MaxFrames - 1) : dragStart(index)
    \/ \E index \in 0..(MaxFrames - 1) : dropOnFrame(index)
    \/ dragEnd

SpecFrames == InitEditorSession /\ [][NextFrames]_vars

(***************************************************************************)
(* useHistory.ts, calls between two renders.  undo, redo and pushHistory   *)
(* are useCallback closures over the past, present and future of the       *)
(* render that made them, and they call the setters with values, so a call *)
(* that acts replaces what an earlier call of the same render has set.     *)
(***************************************************************************)
ClosureFrame ==
    UNCHANGED <<maxHistorySize, lastCall, before, prevCall, before2, pushLog,
                undoCount, editorVars, detVars, uploadVars, saveVars, seedVars,
                recVars, chatVars, agentVars, frameVars>>

\* setPast, setPresent and setFuture with the fields of h
SetState(h) ==
    /\ past' = h.past
    /\ present' = h.present
    /\ future' = h.future

\* the hook renders: the callbacks capture the state
render ==
    /\ captured # H
    /\ captured' = H
    /\ batch' = <<>>
    /\ UNCHANGED <<past, present, future>>
    /\ ClosureFrame

\* a call on a callback of the latest render: it returns early or sets the
\* state it computes from the captured one
Batched(name, arg, acts, h) ==
    /\ captured # NoCapture
    /\ IF acts THEN SetState(h) ELSE UNCHANGED <<past, present, future>>
    /\ batch' = Append(batch, [name |-> name, arg |-> arg])
    /\ UNCHANGED captured
    /\ ClosureFrame

batchedUndo ==
    /\ Len(batch) < MaxBatch
    /\ Batched("undo", NoArg, canUndo(captured), Undo(captured))

batchedRedo ==
    /\ Len(batch) < MaxBatch
    /\ Batched("redo", NoArg, canRedo(captured), Redo(captured))

batchedPushHistory ==
    \E newState \in Snapshots :
        /\ Len(batch) < MaxBatch
        /\ Len(captured.past) < PastCap
        /\ Batched("pushHistory", newState,
                   JSONStringify(newState) # JSONStringify(captured.present),
                   PushHistory(captured, newState, maxHistorySize))

NextRender ==
    \/ render
    \/ batchedUndo
    \/ batchedRedo
    \/ batchedPushHistory

SpecRender == InitHistory /\ [][NextRender]_vars

(***************************************************************************)
(* Properties of the history hook: C1 under SpecRoundTrip, the others      *)
(* under SpecHistory.                                                      *)
(***************************************************************************)
IsSuffix(a, b) == Len(a) <= Len(b) /\ a = SubSeq(b, Len(b) - Len(a) + 1, Len(b))

\* the last n entries of pushLog
LastPushes(n) == SubSeq(pushLog, Len(pushLog) - n + 1, Len(pushLog))

\* n pushHistory calls immediately followed by n undo calls have been made
PushesThenUndos(n) == n > 0 /\ undoCount = n /\ n <= Len(pushLog)

\* every one of the last n pushes passed a snapshot different from present
AllChanged(n) == \A i \in 1..n : LastPushes(n)[i].arg # LastPushes(n)[i].pre

\* C1 as stated: after N pushHistory calls followed by N undo calls,
\* present equals the present that held before the first of those pushes.
C1_RoundTripAnyPushes ==
    \A n \in 1..MaxRun :
        PushesThenUndos(n) => present = LastPushes(n)[1].pre

\* C1 amended: after N pushHistory calls, each with a snapshot different
\* from the present at the time of the call, followed by N undo calls,
\* where N <= maxHistorySize, present equals the present that held before
\* the first of those pushes.
C1_RoundTripEffectivePushes ==
    \A n \in 1..MaxRun :
        (PushesThenUndos(n) /\ AllChanged(n) /\ n <= maxHistorySize)
            => present = LastPushes(n)[1].pre

C1_Witness ==
    /\ PushesThenUndos(2)
    /\ AllChanged(2)
    /\ maxHistorySize = 2
    /\ Len(pushLog) = 3
    /\ present = LastPushes(2)[1].pre

\* C2: undo with an empty past and redo with an empty future change
\* nothing: past, present and future are exactly as before the call.
C2_EmptyUndoRedoNoOp ==
    /\ (lastCall.name = "undo" /\ before.past = <<>>) => H = before
    /\ (lastCall.name = "redo" /\ before.future = <<>>) => H = before

C2_Witness ==
    /\ prevCall.name = "undo" /\ before2.past = <<>>
    /\ lastCall.name = "redo" /\ before.future = <<>>
    /\ H = before2

\* C3: pushHistory with a snapshot structurally equal to present is a
\* no-op (past does not grow, present unchanged), so pushing the same
\* snapshot twice has the same effect as pushing it once.
C3_PushEqualIsNoOp ==
    lastCall.name = "pushHistory" =>
        /\ (lastCall.arg = before.present) =>
               (H = before /\ Len(past) = Len(before.past))
        /\ (prevCall = lastCall) => H = before

C3_Witness ==
    /\ lastCall.name = "pushHistory"
    /\ prevCall = lastCall
    /\ before2.present # lastCall.arg
    /\ Len(past) > 0
    /\ H = before

\* C4: pushHistory with a snapshot that differs from present appends the
\* old present as the newest entry of past, makes the pushed snapshot the
\* new present and leaves the future stack empty.
C4_PushAppends ==
    (lastCall.name = "pushHistory" /\ lastCall.arg # before.present) =>
        /\ Len(past) > 0
        /\ past[Len(past)] = before.present
        /\ IsSuffix(SubSeq(past, 1, Len(past) - 1), before.past)
        /\ present = lastCall.arg
        /\ future = <<>>

C4_Witness ==
    /\ lastCall.name = "pushHistory"
    /\ lastCall.arg # before.present
    /\ Len(before.past) > 0
    /\ Len(before.future) > 0
    /\ past = before.past \o <<before.present>>

\* C5 as stated: immediately after every pushHistory call, whatever
\* snapshot was pushed, future is empty and canRedo is false.
C5_EveryPushClearsFuture ==
    lastCall.name = "pushHistory" => (future = <<>> /\ ~canRedo(H))

\* C5 amended: immediately after every pushHistory call with a snapshot
\* that differs from present, future is empty and canRedo is false; a
\* pushHistory call with a snapshot equal to present leaves the redo
\* stack as it was.
C5_ChangingPushClearsFuture ==
    lastCall.name = "pushHistory" =>
        IF lastCall.arg # before.present
        THEN future = <<>> /\ ~canRedo(H)
        ELSE future = before.future

C5_Witness ==
    /\ lastCall.name = "pushHistory"
    /\ lastCall.arg # before.present
    /\ Len(before.future) = 2
    /\ ~canRedo(H)

\* C6: undo with a non-empty past makes the newest past entry the new
\* present, removes exactly that entry from past and puts the old present
\* at the front of the redo stack; successive undos restore states in
\* most-recently-pushed-first order.
C6_UndoRestoresNewest ==
    (lastCall.name = "undo" /\ Len(before.past) > 0) =>
        /\ present = before.past[Len(before.past)]
        /\ past = SubSeq(before.past, 1, Len(before.past) - 1)
        /\ future = <<before.present>> \o before.future
        /\ (prevCall.name = "undo" /\ Len(before2.past) > 1) =>
               /\ before.present = before2.past[Len(before2.past)]
               /\ present = before2.past[Len(before2.past) - 1]

C6_Witness ==
    /\ lastCall.name = "undo"
    /\ prevCall.name = "undo"
    /\ Len(before2.past) > 1
    /\ before2.past[1] # before2.past[2]
    /\ present = before2.past[Len(before2.past) - 1]

\* C7: redo is the exact inverse of undo: from a state with a non-empty
\* past, undo followed by redo restores the same (past, present, future),
\* and from a state with a non-empty future, redo followed by undo does.
C7_RedoInvertsUndo ==
    /\ (prevCall.name = "undo" /\ lastCall.name = "redo" /\ canUndo(before2))
           => H = before2
    /\ (prevCall.name = "redo" /\ lastCall.name = "undo" /\ canRedo(before2))
           => H = before2

C7_Witness ==
    /\ prevCall.name = "undo" /\ lastCall.name = "redo"
    /\ Len(before2.past) = 2
    /\ Len(before2.future) > 0
    /\ H = before2

\* C8: in every reachable state the past stack holds at most
\* maxHistorySize entries, for every positive maxHistorySize, including 1.
C8_PastBounded == Len(past) <= maxHistorySize

(***************************************************************************)
(* Properties of the editor (checked under SpecEditor).                    *)
(***************************************************************************)
\* C9: interaction modes are mutually exclusive: in every reachable state
\* of an open editor at most one of the five mode flags is true, and
\* enabling a mode while another is active leaves the other disabled.
C9_ModesExclusive ==
    isOpen =>
        /\ Cardinality(ActiveModes) <= 1
        /\ (modeEvent.enabled # "none") => ActiveModes = {modeEvent.enabled}

C9_Witness ==
    /\ isOpen
    /\ modeEvent = [enabled |-> "text", wasActive |-> {"draw"}]
    /\ modes["text"]
    /\ ~modes["draw"]

Rank(l) ==
    CASE l.layer = "background" -> 1
      [] l.layer = "brush" -> 2
      [] l.layer = "element" -> 3

IsElementLayer(l) == l.layer = "element"

\* C10: the compositor paints strictly in the order background image,
\* brush bitmap, then every element in element-list order, also though
\* the background image is loaded asynchronously.
C10_PaintOrder ==
    job.pc = "done" =>
        LET p   == job.painted
            els == SelectSeq(p, IsElementLayer)
        IN  /\ \A i, j \in 1..Len(p) :
                   i < j => \/ Rank(p[i]) < Rank(p[j])
                            \/ (Rank(p[i]) = 3 /\ Rank(p[j]) = 3)
            /\ Len(els) = Len(job.elements)
            /\ \A k \in 1..Len(els) : els[k].ref = job.elements[k].id

C10_Witness ==
    /\ job.pc = "done"
    /\ Len(job.painted) = 4
    /\ job.painted[1] = Layer("background", NodeImage)
    /\ job.painted[2].layer = "brush"
    /\ job.painted[3].ref # job.painted[4].ref
    /\ localImageUrl # job.bg

(***************************************************************************)
(* C11.  The compositor skips any element currently Editing: while a text  *)
(* element's id equals editingTextId, no composite that is generated       *)
(* contains that element.  (A composite that contains the element was      *)
(* started after the click that created it, and the element is entered     *)
(* for editing only by that click.)                                        *)
(***************************************************************************)
PaintsElement(painted, id) ==
    \E i \in 1..Len(painted) :
        painted[i].layer = "element" /\ painted[i].ref = id

C11_EditingElementSkipped ==
    (job.pc = "done" /\ editingTextId # NoEditing)
        => ~PaintsElement(job.painted, editingTextId)

(***************************************************************************)
(* C12.  The compositor is deterministic in its three inputs: two calls    *)
(* with the same background reference, the same brush bitmap and the same  *)
(* element list produce the same output, whatever else differs between     *)
(* the two calls (displayed size, outcome of loading the background).      *)
(***************************************************************************)
TwoShots == prevShot.pc = "done" /\ job.pc = "done"

\* the brush canvas was mounted when the call painted
ReadBrush(call) ==
    \E i \in 1..Len(call.painted) : call.painted[i].layer = "brush"

\* the background had loaded when the call painted
Loaded(call) ==
    \E i \in 1..Len(call.painted) : call.painted[i].layer = "background"

\* the brush bitmap does not change in SpecCompositor
SameThreeInputs ==
    /\ prevShot.bg = job.bg
    /\ prevShot.elements = job.elements

Settled(call) == call.pc \in {"returned", "threw"}

C15_StableReferenceUnchanged ==
    /\ (Settled(upl) /\ ~startsWith(upl.dataUrl, DataPrefix))
          => upl = [pc |-> "returned", dataUrl |-> upl.dataUrl,
                    requests |-> 0, result |-> upl.dataUrl]
    /\ (/\ prevUpl.pc = "returned"
        /\ prevUpl.requests = 1
        /\ upl.pc # "idle"
        /\ upl.dataUrl = prevUpl.result)
          => (upl.pc = "returned" /\ upl.requests = 0
              /\ upl.result = prevUpl.result)

\* the result of a successful upload has been uploaded again
C15_Witness ==
    /\ prevUpl.pc = "returned"
    /\ prevUpl.requests = 1
    /\ upl.pc = "returned"
    /\ upl.dataUrl = prevUpl.result

(***************************************************************************)
(* C13.  Every resultUrl the editor writes to the node is (a reference to  *)
(* or the raw encoding of) the composite of the session's background,      *)
(* brush and elements at the time of the write, the writes made when a     *)
(* crop is applied included.                                               *)
(***************************************************************************)
\* what a picture shows: a blank brush layer shows nothing, a crop and its
\* stored copy show the same image
Shows(painted) ==
    LET seen == SelectSeq(painted,
                          LAMBDA l : ~(l.layer = "brush" /\ l.ref = 0))
    IN  [i \in 1..Len(seen) |->
            IF seen[i].layer = "background"
            THEN Layer("background", PicId(seen[i].ref)) ELSE seen[i]]

\* the composite of the session as it is now
SessionComposite == Paint(localImageUrl, TRUE, TRUE, brushBitmap, elements)

WritesResult == event.type = "end" /\ "resultUrl" \in DOMAIN event.updates

C13_ResultIsSessionComposite ==
    WritesResult
        => Shows(Pic(event.updates["resultUrl"])) = Shows(SessionComposite)

(***************************************************************************)
(* C16.  The crop's background replaces the local background reference     *)
(* before any composite step reads it: no composite generated after Apply  *)
(* of a crop, and no composite written to the node after the crop's own    *)
(* write, embeds the pre-crop background.  (Apply moves the local          *)
(* background to a newer image; a composite generated with an older one    *)
(* has been generated after Apply.)                                        *)
(***************************************************************************)
\* the picture embeds a background older than the session's
EmbedsStaleBackground(painted) ==
    \E i \in 1..Len(painted) :
        /\ painted[i].layer = "background"
        /\ PicId(painted[i].ref) < PicId(localImageUrl)

C16_NoStaleBackground ==
    /\ event.type = "composite" => ~EmbedsStaleBackground(event.painted)
    /\ (WritesResult /\ event.by # "crop" /\ cr.pc = "idle")
          => ~EmbedsStaleBackground(Pic(event.updates["resultUrl"]))

(***************************************************************************)
(* C14.  If an uploadAsset call of a save (saveCanvasToNode or the save    *)
(* of the element-persistence effect) rejects, the save still completes    *)
(* without throwing and calls onUpdate exactly once, with the raw data URL *)
(* in each persisted field whose upload did not succeed.                   *)
(***************************************************************************)
IsRaw(url) == startsWith(url, DataPrefix)

\* field f of the updates, whose upload is named u, holds the raw image
\* unless the upload succeeded
RawUnlessUploaded(f, u) ==
    (f \in DOMAIN event.updates /\ u \notin event.ok) => IsRaw(event.updates[f])

RejectedSaveEnds ==
    /\ event.type = "end"
    /\ event.by \in {"canvas", "elements"}
    /\ event.rejected

C14_RejectedUploadFallsBack ==
    RejectedSaveEnds =>
        /\ ~event.threw
        /\ event.calls = 1
        /\ RawUnlessUploaded("resultUrl", "composite")
        /\ RawUnlessUploaded("editorCanvasData", "brush")
        \* the background is uploaded only when it is a data URL
        /\ ("editorBackgroundUrl" \in DOMAIN event.updates
             /\ "background" \notin event.ok)
              => event.updates["editorBackgroundUrl"] = UrlOf(localImageUrl)

\* saveCanvasToNode has ended after the upload of its composite was
\* rejected: the brush layer is stored, the result is the raw composite
C14_Witness ==
    /\ RejectedSaveEnds
    /\ event.by = "canvas"
    /\ event.ok = {"brush"}
    /\ "resultUrl" \in DOMAIN event.updates
    /\ IsRaw(event.updates["resultUrl"])
    /\ ~IsRaw(event.updates["editorCanvasData"])

(***************************************************************************)
(* C17.  With two saves in flight, the node's persisted fields end up      *)
(* being those written by whichever save's upload response returns last,   *)
(* independent of the order in which the saves started; no save is         *)
(* cancelled.  The save that writes last is then the save whose upload     *)
(* settled last.                                                           *)
(***************************************************************************)
SaveEnds == event.type = "end" /\ event.by \in {"canvas", "elements"}

\* the node holds every field of the updates just written
NodeHoldsUpdates ==
    \A f \in DOMAIN event.updates : node[f] = event.updates[f]

EditedText(els) ==
    LET at == {i \in 1..Len(els) : els[i].id = editingTextId}
    IN  IF at = {} THEN 0 ELSE els[CHOOSE i \in at : TRUE].text

C18_NoSaveOfTextBeingEdited ==
    editingTextId # NoEditing =>
        /\ es.pc = "uploadComposite" => EditedText(es.elements) = 0
        /\ (event.type = "end" /\ "editorElements" \in DOMAIN event.updates)
              => EditedText(event.updates["editorElements"]) = 0

(***************************************************************************)
(* C19.  The session is seeded once per open for a node: while the editor  *)
(* stays open with the same nodeId, a change of the seeding props does not *)
(* overwrite the local element list, background, prompt, model, aspect     *)
(* ratio or resolution.                                                    *)
(***************************************************************************)
C19_PropsChangeKeepsSession ==
    seedEvent.kind = "props" => ~seedEvent.changed

\* the props changed under an open session whose local state differs from
\* what they would seed
C19_Witness ==
    /\ seedEvent.kind = "props"
    /\ isOpen
    /\ hasInitializedRef
    /\ Session(Local) # Seeded(props)
    /\ settings["selectedModel"] = "chosen"

(***************************************************************************)
(* C20.  Closing clears the session identity; every later open, also of    *)
(* the same nodeId, and every change of nodeId while open seeds elements,  *)
(* background and settings from the props of that render.                  *)
(***************************************************************************)
C20_OpenAndSwitchSeed ==
    /\ seedEvent.kind = "close" =>
          ~hasInitializedRef /\ initializedNodeIdRef = 0
    /\ seedEvent.kind \in {"open", "switch"} =>
          /\ Session(Local) = Seeded(props)
          /\ hasInitializedRef
          /\ initializedNodeIdRef = props.nodeId

\* the editor was opened again for the node of the session before, and the
\* seeding replaced what that session had left
C20_Witness ==
    /\ seedEvent.kind = "open"
    /\ seedEvent.afterClose
    /\ seedEvent.nodeBefore = props.nodeId
    /\ seedEvent.changed
    /\ Session(Local) = Seeded(props)

(***************************************************************************)
(* C21.  Stale status data is discarded by the comparison of timestamps:   *)
(* a status response whose createdAt is earlier than the node's            *)
(* generationStartTime never causes updateNode to be called for the node,  *)
(* and the check ends without an error.                                    *)
(***************************************************************************)
\* the call that just ended had a result made before the generation the node
\* is waiting for was started
EndedWithOldResult ==
    /\ recEvent.data.createdAt # Unset
    /\ recEvent.startTime # Unset
    /\ recEvent.data.createdAt < recEvent.startTime

C22_UpdateBeforeGenerate ==
    \A i \in 1..Len(parentCalls) :
        parentCalls[i].fn = "onGenerate" =>
            /\ i > 1
            /\ parentCalls[i - 1].fn = "onUpdate"
            /\ parentCalls[i - 1].id = parentCalls[i].id
            /\ parentCalls[i].id = props.nodeId
            /\ parentCalls[i - 1].updates =
                  [prompt |-> settings["prompt"],
                   imageModel |-> settings["selectedModel"],
                   aspectRatio |-> settings["selectedAspectRatio"],
                   resolution |-> settings["selectedResolution"]]
            /\ parentCalls[i].prompt = settings["prompt"]

\* generation was requested with a prompt typed in this session and with an
\* aspect ratio reset by the choice of a model
C22_Witness ==
    /\ Len(parentCalls) = 2
    /\ parentCalls[2].fn = "onGenerate"
    /\ parentCalls[2].prompt = "chosen"
    /\ settings["selectedModel"] = "chosen"
    /\ settings["selectedAspectRatio"] = "Auto"
    /\ props.initial["prompt"] = "stored"

(***************************************************************************)
(* C23.  Node fields are written only on change: opening the editor for a  *)
(* node and closing it again without a user edit starts no upload and      *)
(* calls onUpdate not once.  (The sessions of SpecOpen have no edit.)      *)
(***************************************************************************)
C23_NoWriteWithoutEdit ==
    /\ es.pc = "idle"
    /\ event.type # "end"
    /\ event.saves = 0

(***************************************************************************)
(* C25.  The element-change persistence issues exactly one save for each   *)
(* structural change of the element list, carrying the list as it was at   *)
(* that change, and none when it runs again with a structurally unchanged  *)
(* list.                                                                   *)
(***************************************************************************)
\* the save started by the step carries the list the step ends with
CarriesList ==
    \/ es'.pc = "loadComposite" /\ es'.elements = elements'
    \/ /\ event'.type = "end"
       /\ "editorElements" \in DOMAIN event'.updates
       /\ event'.updates["editorElements"] = elements'

C25_OneSavePerChange ==
    [][IF isOpen' /\ ElementsJson(elements') # ElementsJson(elements)
       THEN event'.saves = 1 /\ CarriesList
       ELSE event'.saves = 0]_vars

(***************************************************************************)
(* C24.  In draw mode a save is started at every end of a stroke and only  *)
(* then: a pointer-up or pointer-leave on the brush canvas while no stroke *)
(* is in progress starts no save, and one stroke causes one save.          *)
(***************************************************************************)
\* the step starts saveCanvasToNode
StartsCanvasSave == cs.pc = "idle" /\ cs'.pc = "uploadBrush"

\* the step ends a stroke: the brush bitmap has the stroke
EndsStroke == brushBitmap' = brushBitmap + 1

C24_SaveOnlyAtStrokeEnd ==
    [][StartsCanvasSave <=> EndsStroke]_vars

(***************************************************************************)
(* C26.  Every handleCropApply call ends with exactly one onUpdate in      *)
(* which resultUrl and editorBackgroundUrl are the same value, the stored  *)
(* reference when the upload succeeded and the cropped data URL when it    *)
(* failed, and no error leaves the call.                                   *)
(***************************************************************************)
CropEnds == event.type = "end" /\ event.by = "crop"

\* url shows a cropped image and nothing else
ShowsCrop(url) ==
    /\ Len(Pic(url)) = 1
    /\ Pic(url)[1].layer = "background"
    /\ Pic(url)[1].ref % 2 = 0
    /\ Pic(url)[1].ref > 0

C26_CropWritesOnce ==
    CropEnds =>
        /\ event.calls = 1
        /\ ~event.threw
        /\ DOMAIN event.updates = {"resultUrl", "editorBackgroundUrl"}
        /\ event.updates["resultUrl"] = event.updates["editorBackgroundUrl"]
        /\ ShowsCrop(event.updates["resultUrl"])
        /\ IsRaw(event.updates["resultUrl"]) <=> event.rejected
        /\ node["resultUrl"] = event.updates["resultUrl"]
        /\ node["editorBackgroundUrl"] = event.updates["resultUrl"]

\* the upload of a crop was rejected and the data URL was written
C26_Witness ==
    /\ CropEnds
    /\ event.rejected
    /\ IsRaw(node["editorBackgroundUrl"])
    /\ localImageUrl = CroppedDataUrl

(***************************************************************************)
(* C27.  When a status check returns success with a resultUrl that is not  *)
(* stale, the node is updated with status SUCCESS and that resultUrl, and  *)
(* errorMessage and generationStartTime are cleared; for a video a failed  *)
(* extraction of the last frame only leaves lastFrame out.                 *)
(***************************************************************************)
\* the response has a result
HasResult(data) == data.status = "success" /\ data.resultUrl # Unset

C27_SuccessUpdatesNode ==
    /\ recEvent.kind = "update" =>
          /\ HasResult(recEvent.data)
          /\ DOMAIN recEvent.updates \ {"lastFrame"} =
                {"status", "resultUrl", "errorMessage", "generationStartTime"}
          /\ recEvent.updates["status"] = "SUCCESS"
          /\ recEvent.updates["resultUrl"] = recEvent.data.resultUrl
          /\ recEvent.updates["errorMessage"] = FALSE
          /\ recEvent.updates["generationStartTime"] = Unset
          /\ "lastFrame" \in DOMAIN recEvent.updates =>
                recEvent.data.type = "video"
          /\ gnodes[recEvent.id].status = "SUCCESS"
          /\ gnodes[recEvent.id].generationStartTime = Unset
    \* a check that ends without an update had no result, or a stale one
    /\ recEvent.kind = "nothing" => ~HasResult(recEvent.data)
    /\ recEvent.kind = "stale" => EndedWithOldResult
    \* a call that waits for the last frame has a result
    /\ \A n \in NodeIds : \A i \in 1..Len(extracts[n]) :
          HasResult(extracts[n][i]) /\ extracts[n][i].type = "video"

\* a video result was applied without its last frame, to a node that had a
\* start time
C27_Witness ==
    /\ recEvent.kind = "update"
    /\ recEvent.data.type = "video"
    /\ "lastFrame" \notin DOMAIN recEvent.updates
    /\ recEvent.startTime # Unset
    /\ gnodes[recEvent.id].generationStartTime = Unset

(***************************************************************************)
(* C28.  Every node in LOADING status is checked at once and then on every *)
(* polling interval for as long as it stays LOADING: under fair scheduling *)
(* a node whose backend reports a success that is not stale leaves         *)
(* LOADING; a failed status request does not stop the polling.             *)
(***************************************************************************)
Loading(n) == gnodes[n].status = "LOADING"

\* the backend holds a result for n that is not stale
Fresh(n) == HasResult(backend[n]) /\ ~IsStale(gnodes[n], backend[n])

\* the interval is the one of the nodes that are loading
PollsLoading == pollIds = SelectSeq(IdSeq, Loading)

C28_LoadingIsPolled ==
    /\ [][\A n \in NodeIds :
             /\ (Loading(n)' /\ ~Loading(n)) => fetches'[n] > 0
             /\ PollsLoading']_vars
    /\ \A n \in NodeIds :
          (Loading(n) /\ Fresh(n)) ~> (~Loading(n) \/ ~Fresh(n))

\* a status request of a loading node has failed, and the other node has
\* been taken out of LOADING by its check
C28_Witness ==
    /\ recEvent.kind = "caught"
    /\ Loading(recEvent.id)
    /\ \E n \in NodeIds : n # recEvent.id /\ gnodes[n].status = "SUCCESS"
    /\ pollIds = <<recEvent.id>>

\* C29: every assistant message of the list comes after the user message of
\* the same sendMessage call.
C29_AssistantAfterUser ==
    \A i \in 1..Len(messages) :
        messages[i].role = "assistant" =>
            \E j \in 1..(i - 1) :
                messages[j].role = "user" /\ messages[j].req = messages[i].req

\* the step ends a sendMessage call whose request failed
SendFailed ==
    /\ inflight # NoRequest
    /\ inflight' = NoRequest
    /\ chatEvent'.resp.kind \in {"rejected", "notOk"}

\* the message of the failure: of the rejection, or the field error of the
\* body, or else the status text
FailureText(resp) ==
    IF resp.kind = "rejected" THEN resp.message
    ELSE IF resp.json /\ resp.error # "" THEN resp.error
    ELSE resp.statusText

\* C30: a sendMessage call whose request fails does not reject; it sets error
\* to the message of the failure, leaves the list as it is, with the user
\* message in it unless the chat was restarted meanwhile, and sets isLoading
\* to false, as a call whose request succeeds does.
C30_FailureIsCaught ==
    [][/\ SendFailed =>
            /\ chatEvent'.kind = "failed"
            /\ ~chatEvent'.rejected
            /\ error' = FailureText(chatEvent'.resp)
            /\ messages' = messages
            /\ (chatEvent.kind = "sent" =>
                   messages'[Len(messages')] =
                       [role |-> "user", content |-> inflight.content,
                        req |-> inflight.req])
            /\ ~isLoading'
       /\ (inflight # NoRequest /\ inflight' = NoRequest) => ~isLoading']_vars

C30_Witness ==
    /\ chatEvent.kind = "failed"
    /\ chatEvent.resp.kind = "notOk"
    /\ error = "Bad Request"
    /\ ~isLoading
    /\ Len(messages) = 3
    /\ messages[3].role = "user" /\ messages[3].req = chatEvent.req
    /\ messages[2].role = "assistant"

\* C31: when the first call on a session that returns a response has
\* returned, the session has a topic or the call returned "New Chat".
C31_FirstExchangeHasTopic ==
    \A c \in 1..MaxCalls :
        (agentCalls[c].pc = "returned" /\ agentCalls[c].first) =>
            \/ sessions[agentCalls[c].sessionId].topic # ""
            \/ agentCalls[c].topic = "New Chat"

\* the drop moved a frame from one displayed position to another
FrameMoved == frameEvent.kind = "drop" /\ frameEvent.from # frameEvent.to

CropsFinished ==
    /\ cr.last # NoImage
    /\ cr.pc = "idle"
    /\ cr.earlier = NoImage

\* C33: when every handleCropApply call has finished, the local background
\* shows the image of the crop applied last.
C33_BackgroundIsLastCrop ==
    CropsFinished => PicId(localImageUrl) = PicId(cr.last)

\* the step sets node n to SUCCESS
BecomesSuccess(n) ==
    gnodes[n].status # "SUCCESS" /\ gnodes'[n].status = "SUCCESS"

\* C34: a step that sets a node to SUCCESS applies a result that is not older
\* than the generation the node is waiting for at that moment.
C34_UpdateIsFreshWhenApplied ==
    [][\A n \in NodeIds :
          BecomesSuccess(n) =>
              ~(/\ gnodes[n].generationStartTime # Unset
                /\ recEvent'.data.createdAt # Unset
                /\ recEvent'.data.createdAt < gnodes[n].generationStartTime)]_vars

\* the step ends a request that was sent in a chat before the current one
SettlesEarlierChat ==
    /\ inflight # NoRequest
    /\ inflight' = NoRequest
    /\ inflight.sessionId # sessionId

\* C35: the response of a request sent before startNewChat changes neither
\* the message list nor the topic of the new chat.
C35_NewChatIsOwn ==
    [][SettlesEarlierChat => messages' = messages /\ topic' = topic]_vars

\* no sendMessage call is in progress on session id
AgentIdle(id) ==
    \A c \in 1..MaxCalls :
        agentCalls[c].sessionId = id =>
            agentCalls[c].pc \in {"rejected", "returned"}

\* user message, AI response, user message, AI response, ...
Alternates(msgs) ==
    /\ Len(msgs) % 2 = 0
    /\ \A i \in 1..Len(msgs) :
          msgs[i].role = IF i % 2 = 1 THEN "human" ELSE "ai"

\* C36: while no call is in progress on a session, its messages alternate
\* user message, AI response, and a call whose graph invocation failed has
\* left the list as it was before the call.
C36_SessionAlternates ==
    \A id \in SessionIds :
        AgentIdle(id) =>
            /\ Alternates(sessions[id].messages)
            /\ \A c \in 1..MaxCalls :
                  (agentCalls[c].sessionId = id /\ agentCalls[c].pc = "rejected")
                      => \A i \in 1..Len(sessions[id].messages) :
                            sessions[id].messages[i].call # c

\* the state after the calls of b have taken effect one after another on h
RECURSIVE OneAfterAnother(_, _)
OneAfterAnother(h, b) ==
    IF b = <<>> THEN h
    ELSE OneAfterAnother(
             CASE b[1].name = "undo" -> Undo(h)
               [] b[1].name = "redo" -> Redo(h)
               [] OTHER -> PushHistory(h, b[1].arg, maxHistorySize),
             Tail(b))

\* C37: the calls made since the latest render have taken effect one after
\* another on the state of that render.
C37_CallsTakeEffectInTurn ==
    captured # NoCapture => H = OneAfterAnother(captured, batch)

\* the step is a settings handler that changes the selected aspect ratio
AspectChanges ==
    /\ isOpen
    /\ seedEvent'.kind = "edit"
    /\ settings'["selectedAspectRatio"] # settings["selectedAspectRatio"]

\* C38: a settings handler that changes the selected aspect ratio passes the
\* new ratio to onUpdate, so that the node keeps the ratio of the editor.
C38_AspectIsPersisted ==
    [][AspectChanges =>
          \E i \in 1..Len(parentCalls') :
              /\ parentCalls'[i].fn = "onUpdate"
              /\ "aspectRatio" \in DOMAIN parentCalls'[i].updates
              /\ parentCalls'[i].updates["aspectRatio"] =
                    settings'["selectedAspectRatio"]]_vars

====
